---- MODULE Spec2Model ----
(***************************************************************************)
(* Dyson factory analysis: the recipe graph and the bottleneck, logistics  *)
(* and power analyzers of src/mcp_server/tools.                            *)
(*                                                                         *)
(* Rates, fractions and severities are Python floats in the source.  They  *)
(* are modelled as exact rationals over integers: a comparison such as     *)
(* count > len * 0.3 is written 10 * count > 3 * len (the two agree for    *)
(* every group size up to 100000 in IEEE double arithmetic), and a value   *)
(* such as severity is kept as a fraction [num, den].                      *)
(***************************************************************************)
EXTENDS Integers, Sequences, FiniteSets, TLC

VARIABLES
    graph,      \* the recipe catalog every analyzer reads (RecipeDatabase)
    trace,      \* the state of one upstream / downstream traversal
    snapshot,   \* the FactoryState the caller passes to analyze
    database,   \* the module-level RecipeDatabase singleton
    analyzers,  \* the three analyzer instances: their _db attribute
    access,     \* the callers inside the db property, each at its position
    params,     \* the arguments of each analyze call
    locals      \* the local variables of each analyze call, and its position

vars == <<graph, trace, snapshot, database, analyzers, access, params, locals>>

(***************************************************************************)
(* Generic helpers.                                                        *)
(***************************************************************************)
Range(s) == {s[i] : i \in 1..Len(s)}

RECURSIVE SetToSeq(_)
\* The elements of a finite set of integers in ascending order.
SetToSeq(S) ==
    IF S = {} THEN <<>>
    ELSE LET m == CHOOSE x \in S : \A y \in S : x <= y
         IN <<m>> \o SetToSeq(S \ {m})

RECURSIVE Flatten(_)
Flatten(ss) == IF ss = <<>> THEN <<>> ELSE Head(ss) \o Flatten(Tail(ss))

NoDuplicates(s) == \A i, j \in 1..Len(s) : i # j => s[i] # s[j]

RECURSIVE SumSeq(_)
SumSeq(s) == IF s = <<>> THEN 0 ELSE Head(s) + SumSeq(Tail(s))

\* s[:n]
Take(s, n) == SubSeq(s, 1, IF Len(s) < n THEN Len(s) ELSE n)

Abs(x) == IF x < 0 THEN 0 - x ELSE x

\* Optional[...] = None.  Ids of items, recipes and planets are >= 0.
None == -1

(***************************************************************************)
(* Exact fractions [num, den], den > 0, for the float quantities.          *)
(***************************************************************************)
Frac(n, d) == [num |-> n, den |-> d]
FracEq(a, b) == a.num * b.den = b.num * a.den
FracLt(a, b) == a.num * b.den < b.num * a.den
FracLe(a, b) == a.num * b.den <= b.num * a.den
FracInt(k) == Frac(k, 1)

\* round(x, digits) as a whole number of units of 1 / scale: x to the
\* nearest unit, a tie to the even unit.
Round(x, scale) ==
    LET n == scale * Abs(x.num)
        q == n \div x.den
        r == n % x.den
        up == IF 2 * r > x.den THEN 1
              ELSE IF 2 * r < x.den THEN 0
              ELSE q % 2
    IN IF x.num < 0 THEN 0 - (q + up) ELSE q + up

\* round(x, 1), as a number of tenths.
RoundTenths(x) == Round(x, 10)

\* round(x, 2), as a number of hundredths.
RoundHundredths(x) == Round(x, 100)

\* The indices of keys from the largest key to the smallest, equal keys in
\* index order: the order of a stable sort with reverse=True.
RECURSIVE OrderDescending(_, _)
OrderDescending(keys, left) ==
    IF left = {} THEN <<>>
    ELSE LET first == CHOOSE i \in left :
                    \A j \in left : keys[j] < keys[i] \/ (keys[j] = keys[i] /\ i <= j)
         IN <<first>> \o OrderDescending(keys, left \ {first})

SortDescending(s, keys) ==
    [k \in 1..Len(s) |-> s[OrderDescending(keys, DOMAIN s)[k]]]

(***************************************************************************)
(* RecipeGraph (utils/recipe_database.py).  A catalog is a record          *)
(*   [items : item id -> name, recipes : recipe id -> Recipe]              *)
(* and a Recipe is                                                         *)
(*   [id, building, time, inputs, outputs, primary_output_id,              *)
(*    primary_output_count]                                                *)
(* with inputs / outputs sequences of [item_id, count].                    *)
(***************************************************************************)
NoRecipe == [id |-> -1]

get_recipe(recipe_id) ==
    IF recipe_id \in DOMAIN graph.recipes THEN graph.recipes[recipe_id] ELSE NoRecipe

get_item_name(item_id) ==
    IF item_id \in DOMAIN graph.items THEN graph.items[item_id]
    ELSE "item_" \o ToString(item_id)

\* Producer index: the recipes that output an item, in recipe id order.
ProducerIndex(recipes, item_id) ==
    SetToSeq({r \in DOMAIN recipes :
                \E k \in 1..Len(recipes[r].outputs) : recipes[r].outputs[k].item_id = item_id})

\* Consumer index: the recipes that take an item as input, in recipe id order.
ConsumerIndex(recipes, item_id) ==
    SetToSeq({r \in DOMAIN recipes :
                \E k \in 1..Len(recipes[r].inputs) : recipes[r].inputs[k].item_id = item_id})

BuildGraph(items, recipes) ==
    [items |-> items, recipes |-> recipes,
     producers |-> [i \in DOMAIN items |-> ProducerIndex(recipes, i)],
     consumers |-> [i \in DOMAIN items |-> ConsumerIndex(recipes, i)]]

Producers(item_id) ==
    IF item_id \in DOMAIN graph.producers THEN graph.producers[item_id] ELSE <<>>

Consumers(item_id) ==
    IF item_id \in DOMAIN graph.consumers THEN graph.consumers[item_id] ELSE <<>>

\* The (item, recipe) pairs one hop away from item_id, in traversal order.
Neighbours(dir, item_id) ==
    IF dir = "up"
    THEN Flatten([i \in 1..Len(Producers(item_id)) |->
            LET r == graph.recipes[Producers(item_id)[i]]
            IN [k \in 1..Len(r.inputs) |->
                    [item_id |-> r.inputs[k].item_id, recipe_id |-> r.id]]])
    ELSE [i \in 1..Len(Consumers(item_id)) |->
            LET r == graph.recipes[Consumers(item_id)[i]]
            IN [item_id |-> r.primary_output_id, recipe_id |-> r.id]]

\* Mutant of Unvisited: the traversal without its visited set.
UnvisitedNoDedupe(item_id, visited) == TRUE

\* The dedupe rule: an item is entered only if its id was not visited.
Unvisited(item_id, visited) == item_id \notin visited

RECURSIVE Discover(_, _, _)
\* The neighbours not yet visited, each once, in order.
Discover(cands, visited, depth) ==
    IF cands = <<>> THEN <<>>
    ELSE LET c == Head(cands)
         IN IF Unvisited(c.item_id, visited)
            THEN <<[item_id |-> c.item_id, item_name |-> get_item_name(c.item_id),
                    recipe_id |-> c.recipe_id, depth |-> depth]>>
                 \o Discover(Tail(cands), visited \cup {c.item_id}, depth)
            ELSE Discover(Tail(cands), visited, depth)

TraceStart(dir, item_id, max_depth) ==
    [dir |-> dir, start |-> item_id, max_depth |-> max_depth,
     queue |-> <<[item_id |-> item_id, depth |-> 0]>>,
     visited |-> {item_id}, result |-> <<>>, pc |-> "run"]

\* One iteration of the breadth-first loop: dequeue an item and, below the
\* depth limit, enter its unvisited neighbours.
TraceExpand(t) ==
    LET head == Head(t.queue)
        found == IF head.depth < t.max_depth
                 THEN Discover(Neighbours(t.dir, head.item_id), t.visited, head.depth + 1)
                 ELSE <<>>
    IN [t EXCEPT !.queue = Tail(t.queue) \o
                     [i \in 1..Len(found) |->
                         [item_id |-> found[i].item_id, depth |-> found[i].depth]],
                 !.visited = t.visited \cup {found[i].item_id : i \in 1..Len(found)},
                 !.result = t.result \o found]

RECURSIVE TraceRun(_)
TraceRun(t) == IF t.queue = <<>> THEN t.result ELSE TraceRun(TraceExpand(t))

\* (item_id, item_name, recipe_id) entries, nearest first.
trace_bottleneck_upstream(item_id, max_depth) ==
    LET r == TraceRun(TraceStart("up", item_id, max_depth))
    IN [i \in 1..Len(r) |-> [item_id |-> r[i].item_id, item_name |-> r[i].item_name,
                             recipe_id |-> r[i].recipe_id]]

\* (item_id, item_name) entries, nearest first.
trace_bottleneck_downstream(item_id, max_depth) ==
    LET r == TraceRun(TraceStart("down", item_id, max_depth))
    IN [i \in 1..Len(r) |-> [item_id |-> r[i].item_id, item_name |-> r[i].item_name]]

(***************************************************************************)
(* Depth limits the bottleneck analyzer passes to the traversals.          *)
(***************************************************************************)
DownstreamDepth == 3
ChainDepth == 5
CriticalPathDepth == 5

(***************************************************************************)
(* The parts of the state and their values before anything ran.  The three *)
(* analyzers are the instances the server holds, one per engine.           *)
(***************************************************************************)
Engines == {"bottleneck", "logistics", "power"}
CallIds == {1, 2}

MaxCallers == 3
Callers == 1..MaxCallers

NoSnapshot == [timestamp |-> 0, planets |-> <<>>]
NoDatabase == [instance |-> None, builds |-> 0]
NoAnalyzers == [e \in Engines |-> [_db |-> None]]
NoAccess == [k \in Callers |-> [pc |-> "idle"]]
NoCall == [engine |-> "none"]
NoCalls == [c \in CallIds |-> NoCall]
NoReport == [engine |-> "none"]
NoLocals == [c \in CallIds |-> [pc |-> "idle", report |-> NoReport]]

(***************************************************************************)
(* SpecTrace: one traversal, step by step, over every recipe graph of a    *)
(* bounded family (cycles, self loops and diamonds included).              *)
(***************************************************************************)
MaxInputs == 2

TraceItems == {1, 2, 3, 4}
TraceRecipes == {1, 2, 3}
\* The traversals the bottleneck analyzer requests: downstream to depth 3
\* and 5, upstream to depth 5.  The family is closed under renaming the
\* produced items 1..3, so item 1 stands for any produced start item; item
\* 4 is raw (nothing is upstream of it).
TraceRequests ==
    {[dir |-> "down", item_id |-> 1, max_depth |-> DownstreamDepth],
     [dir |-> "down", item_id |-> 1, max_depth |-> ChainDepth],
     [dir |-> "up", item_id |-> 1, max_depth |-> CriticalPathDepth],
     [dir |-> "down", item_id |-> 4, max_depth |-> ChainDepth]}

InputSets == {S \in SUBSET TraceItems : Cardinality(S) <= MaxInputs}

\* Recipe r makes item r out of the items of ins[r].
GraphOf(ins) ==
    BuildGraph([i \in TraceItems |-> "item"],
     [r \in TraceRecipes |->
        [id |-> r, building |-> "assembler", time |-> 1,
         inputs |-> [k \in 1..Len(SetToSeq(ins[r])) |->
                        [item_id |-> SetToSeq(ins[r])[k], count |-> 1]],
         outputs |-> <<[item_id |-> r, count |-> 1]>>,
         primary_output_id |-> r, primary_output_count |-> 1]])

NoGraph == BuildGraph(<<>>, <<>>)
TraceIdle == [pc |-> "idle", result |-> <<>>]

InitTrace ==
    /\ graph = NoGraph
    /\ trace = TraceIdle
    /\ snapshot = NoSnapshot
    /\ database = NoDatabase
    /\ analyzers = NoAnalyzers
    /\ access = NoAccess
    /\ params = NoCalls
    /\ locals = NoLocals

LoadCatalog ==
    /\ graph = NoGraph
    /\ \E ins \in [TraceRecipes -> InputSets] : graph' = GraphOf(ins)
    /\ UNCHANGED <<trace, snapshot, database, analyzers, access, params, locals>>

TraceCall ==
    /\ graph # NoGraph
    /\ trace.pc = "idle"
    /\ \E r \in TraceRequests : trace' = TraceStart(r.dir, r.item_id, r.max_depth)
    /\ UNCHANGED <<graph, snapshot, database, analyzers, access, params, locals>>

\* One iteration of the loop; the traversal returns with the iteration that
\* empties the queue.
TraceStep ==
    /\ trace.pc = "run"
    /\ \E t \in {TraceExpand(trace)} :
          trace' = IF t.queue = <<>> THEN [t EXCEPT !.pc = "done"] ELSE t
    /\ UNCHANGED <<graph, snapshot, database, analyzers, access, params, locals>>

NextTrace == LoadCatalog \/ TraceCall \/ TraceStep

SpecTrace == InitTrace /\ [][NextTrace]_vars /\ WF_vars(TraceStep)

(***************************************************************************)
(* The catalog the analyzers run against: ore -> ingot -> gear -> motor,   *)
(* the motor taking ingots and gears.                                      *)
(***************************************************************************)
CatalogItems == <<"Iron Ore", "Iron Ingot", "Gear", "Motor">>

CatalogRecipes ==
    <<[id |-> 1, building |-> "smelter", time |-> 1,
       inputs |-> <<[item_id |-> 1, count |-> 1]>>,
       outputs |-> <<[item_id |-> 2, count |-> 1]>>,
       primary_output_id |-> 2, primary_output_count |-> 1],
      [id |-> 2, building |-> "assembler", time |-> 1,
       inputs |-> <<[item_id |-> 2, count |-> 1]>>,
       outputs |-> <<[item_id |-> 3, count |-> 1]>>,
       primary_output_id |-> 3, primary_output_count |-> 1],
      [id |-> 3, building |-> "assembler", time |-> 2,
       inputs |-> <<[item_id |-> 2, count |-> 2], [item_id |-> 3, count |-> 1]>>,
       outputs |-> <<[item_id |-> 4, count |-> 1]>>,
       primary_output_id |-> 4, primary_output_count |-> 1]>>

Catalog == BuildGraph(CatalogItems, CatalogRecipes)

\* Exact match against the name table; None when the name is unknown.
get_item_id(name) ==
    IF \E i \in DOMAIN graph.items : graph.items[i] = name
    THEN CHOOSE i \in DOMAIN graph.items : graph.items[i] = name
    ELSE None

\* building_count x (primary_output.count / time) x 60; 0 for an absent
\* recipe or time <= 0.  Catalog times divide 60 x count.
calculate_theoretical_rate(recipe_id, building_count) ==
    LET recipe == get_recipe(recipe_id)
    IN IF recipe = NoRecipe THEN 0
       ELSE IF recipe.time <= 0 THEN 0
       ELSE (building_count * recipe.primary_output_count * 60) \div recipe.time

(***************************************************************************)
(* BottleneckAnalyzer (tools/bottleneck_analyzer.py).                      *)
(***************************************************************************)
NoBottleneck == [bottleneck_type |-> "none"]
NoPower == [generation_mw |-> None]

_get_upstream_items(recipe_id) ==
    LET recipe == get_recipe(recipe_id)
    IN IF recipe = NoRecipe THEN <<>>
       ELSE [k \in 1..Len(recipe.inputs) |-> get_item_name(recipe.inputs[k].item_id)]

_get_downstream_items(item_id) ==
    LET downstream == trace_bottleneck_downstream(item_id, DownstreamDepth)
    IN [k \in 1..Len(downstream) |-> downstream[k].item_name]

_is_in_dependency_chain(recipe_id, target_item_id) ==
    LET recipe == get_recipe(recipe_id)
    IN IF recipe = NoRecipe THEN FALSE
       ELSE LET downstream == trace_bottleneck_downstream(recipe.primary_output_id, ChainDepth)
            IN \E k \in 1..Len(downstream) : downstream[k].item_id = target_item_id

\* Mutant of StarvedOverThreshold: the threshold taken inclusively.
StarvedAtThreshold(count, n) == 10 * count >= 3 * n

\* count > len(assemblers) * 0.3
StarvedOverThreshold(count, n) == 10 * count > 3 * n

\* count > len(assemblers) * 0.3
BlockedOverThreshold(count, n) == 10 * count > 3 * n

\* Mutant of ClassifyGroup: the efficiency limit of the third rule taken
\* from the count of inefficient buildings (90).
ClassifyGroupBelowNinety(starved, blocked, n, avg_efficiency) ==
    IF 10 * starved > 3 * n THEN "input_starvation"
    ELSE IF 10 * blocked > 3 * n THEN "output_blocked"
    ELSE IF FracLt(avg_efficiency, FracInt(90)) THEN "low_efficiency"
    ELSE "none"

\* Mutant of ClassifyGroup: the blocked rule tried before the starved rule.
ClassifyGroupBlockedFirst(starved, blocked, n, avg_efficiency) ==
    IF BlockedOverThreshold(blocked, n) THEN "output_blocked"
    ELSE IF StarvedOverThreshold(starved, n) THEN "input_starvation"
    ELSE IF FracLt(avg_efficiency, FracInt(80)) THEN "low_efficiency"
    ELSE "none"

\* The if / elif / elif chain: the first rule that matches decides.
ClassifyGroup(starved, blocked, n, avg_efficiency) ==
    IF StarvedOverThreshold(starved, n) THEN "input_starvation"
    ELSE IF BlockedOverThreshold(blocked, n) THEN "output_blocked"
    ELSE IF FracLt(avg_efficiency, FracInt(80)) THEN "low_efficiency"
    ELSE "none"

_analyze_recipe_group(recipe_id, assemblers, planet, include_downstream) ==
    LET recipe == get_recipe(recipe_id)
        n == Len(assemblers)
        total_production == SumSeq([k \in 1..n |-> assemblers[k].production_rate])
        summed == IF assemblers[1].theoretical_max > 0
                  THEN SumSeq([k \in 1..n |-> assemblers[k].theoretical_max])
                  ELSE 0
        total_theoretical == IF summed = 0
                             THEN calculate_theoretical_rate(recipe_id, n)
                             ELSE summed
        avg_efficiency == IF total_theoretical > 0
                          THEN Frac(total_production * 100, total_theoretical)
                          ELSE FracInt(100)
        input_starved_count == Cardinality({k \in 1..n : assemblers[k].input_starved})
        output_blocked_count == Cardinality({k \in 1..n : assemblers[k].output_blocked})
        bottleneck_type == ClassifyGroup(input_starved_count, output_blocked_count,
                                         n, avg_efficiency)
        upstream == _get_upstream_items(recipe_id)
        downstream == IF include_downstream
                      THEN _get_downstream_items(recipe.primary_output_id)
                      ELSE <<>>
        severity ==
            CASE bottleneck_type = "input_starvation" -> Frac(input_starved_count * 100, n)
              [] bottleneck_type = "output_blocked" -> Frac(output_blocked_count * 100, n)
              [] OTHER -> Frac(100 * avg_efficiency.den - avg_efficiency.num,
                               avg_efficiency.den)
        power_deficit == planet.power # NoPower /\ planet.power.surplus_mw < 0
        root_cause ==
            CASE bottleneck_type = "input_starvation" ->
                    <<"Insufficient input: ">> \o Take(upstream, 3)
              [] bottleneck_type = "output_blocked" ->
                    <<"Output buffer full, downstream consumption insufficient">>
              [] OTHER ->
                    IF power_deficit
                    THEN <<"Power deficit limiting production",
                           ToString(Abs(planet.power.surplus_mw))>>
                    ELSE <<"Assemblers running below optimal efficiency">>
        recommendation ==
            CASE bottleneck_type = "input_starvation" ->
                    <<"Increase production or add more input belts",
                      IF upstream # <<>> THEN upstream[1] ELSE "inputs">>
              [] bottleneck_type = "output_blocked" ->
                    IF downstream # <<>>
                    THEN <<"Increase consumption or add more output belts", downstream[1]>>
                    ELSE <<"Add more output belts or increase downstream consumption">>
              [] OTHER ->
                    IF power_deficit
                    THEN <<"Add power generation to restore full efficiency">>
                    ELSE <<"Check for sporadic input/output issues or power fluctuations">>
    IN IF recipe = NoRecipe THEN NoBottleneck
       ELSE IF bottleneck_type = "none" THEN NoBottleneck
       ELSE [item_id |-> recipe.primary_output_id,
             item_name |-> get_item_name(recipe.primary_output_id),
             recipe_id |-> recipe_id,
             bottleneck_type |-> bottleneck_type,
             severity |-> severity,
             affected_throughput |-> total_theoretical - total_production,
             efficiency |-> avg_efficiency,
             root_cause |-> root_cause,
             recommendation |-> recommendation,
             upstream_items |-> Take(upstream, 5),
             downstream_impact |-> Take(downstream, 5),
             planet_id |-> 0,
             assembler_count |-> n]

\* The recipe ids of a building list in order of first appearance (the key
\* order of the assemblers_by_recipe dict).
RECURSIVE RecipeKeys(_, _)
RecipeKeys(assemblers, seen) ==
    IF assemblers = <<>> THEN <<>>
    ELSE IF Head(assemblers).recipe_id \in seen
         THEN RecipeKeys(Tail(assemblers), seen)
         ELSE <<Head(assemblers).recipe_id>>
              \o RecipeKeys(Tail(assemblers), seen \cup {Head(assemblers).recipe_id})

SameRecipe(assembler, recipe_id) == assembler.recipe_id = recipe_id

\* assemblers_by_recipe[recipe_id]
RecipeGroup(assemblers, recipe_id) ==
    SelectSeq(assemblers, LAMBDA a : SameRecipe(a, recipe_id))

\* target_item_id, None when target_item is empty / not given.
TargetIdOf(target_item) ==
    IF target_item = "" THEN None ELSE get_item_id(target_item)

\* Whether a known recipe's group passes the target_item filter.
PassesTarget(recipe, target_item_id) ==
    IF target_item_id = None THEN TRUE
    ELSE IF recipe.primary_output_id = target_item_id THEN TRUE
    ELSE _is_in_dependency_chain(recipe.id, target_item_id)

\* Mutant of SelectsPlanet: the planet_id filter left out.
SelectsEveryPlanet(planet_id, pid) == TRUE

\* The planet loop does not skip the planet: the negation of
\* planet_id is not None and pid != planet_id.
SelectsPlanet(planet_id, pid) == planet_id = None \/ pid = planet_id

RECURSIVE InsertBySeverity(_, _)
\* b placed after every entry whose severity is at least its own.
InsertBySeverity(sorted, b) ==
    IF sorted = <<>> THEN <<b>>
    ELSE IF FracLt(Head(sorted).severity, b.severity)
         THEN <<b>> \o sorted
         ELSE <<Head(sorted)>> \o InsertBySeverity(Tail(sorted), b)

\* Mutant of SortBySeverity: the list left in the order of recording.
UnsortedBySeverity(bottlenecks, sorted) == sorted \o bottlenecks

RECURSIVE SortBySeverity(_, _)
\* bottlenecks.sort(key=severity, reverse=True): descending and stable.
SortBySeverity(bottlenecks, sorted) ==
    IF bottlenecks = <<>> THEN sorted
    ELSE SortBySeverity(Tail(bottlenecks), InsertBySeverity(sorted, Head(bottlenecks)))

\* Mutant of _build_critical_path: the bottleneck of a step looked up by
\* recipe id instead of item id.
_build_critical_path_by_recipe(bottlenecks, target_item_id) ==
    IF bottlenecks = <<>> THEN <<>>
    ELSE LET root == bottlenecks[1]
             upstream == trace_bottleneck_upstream(root.item_id, CriticalPathDepth)
         IN [k \in 1..Len(upstream) |->
                LET matches == SelectSeq(bottlenecks,
                                         LAMBDA b : b.recipe_id = upstream[k].item_id)
                IN IF matches = <<>>
                   THEN [item |-> upstream[k].item_name, item_id |-> upstream[k].item_id,
                         recipe_id |-> upstream[k].recipe_id, has_bottleneck |-> FALSE]
                   ELSE [item |-> upstream[k].item_name, item_id |-> upstream[k].item_id,
                         recipe_id |-> upstream[k].recipe_id, has_bottleneck |-> TRUE,
                         bottleneck_type |-> matches[1].bottleneck_type,
                         severity |-> matches[1].severity]]

_build_critical_path(bottlenecks, target_item_id) ==
    IF bottlenecks = <<>> THEN <<>>
    ELSE LET root == bottlenecks[1]
             upstream == trace_bottleneck_upstream(root.item_id, CriticalPathDepth)
         IN [k \in 1..Len(upstream) |->
                LET matches == SelectSeq(bottlenecks,
                                         LAMBDA b : b.item_id = upstream[k].item_id)
                IN IF matches = <<>>
                   THEN [item |-> upstream[k].item_name, item_id |-> upstream[k].item_id,
                         recipe_id |-> upstream[k].recipe_id, has_bottleneck |-> FALSE]
                   ELSE [item |-> upstream[k].item_name, item_id |-> upstream[k].item_id,
                         recipe_id |-> upstream[k].recipe_id, has_bottleneck |-> TRUE,
                         bottleneck_type |-> matches[1].bottleneck_type,
                         severity |-> matches[1].severity]]

BottleneckTypes == <<"input_starvation", "output_blocked", "low_efficiency">>

CountOfType(bottlenecks, t) == Len(SelectSeq(bottlenecks, LAMBDA b : b.bottleneck_type = t))

\* max(by_type, key=by_type.get): the most frequent type, the one met first
\* in the list among equals.
MostCommonType(bottlenecks) ==
    LET best == CHOOSE k \in 1..Len(bottlenecks) :
                  /\ \A j \in 1..Len(bottlenecks) :
                        CountOfType(bottlenecks, bottlenecks[j].bottleneck_type)
                          <= CountOfType(bottlenecks, bottlenecks[k].bottleneck_type)
                  /\ \A j \in 1..(k - 1) :
                        CountOfType(bottlenecks, bottlenecks[j].bottleneck_type)
                          < CountOfType(bottlenecks, bottlenecks[k].bottleneck_type)
    IN bottlenecks[best].bottleneck_type

_generate_summary_message(most_severe, count) ==
    CASE most_severe.bottleneck_type = "input_starvation" ->
            <<"limited by input availability", most_severe.item_name,
              IF most_severe.upstream_items # <<>>
              THEN most_severe.upstream_items[1] ELSE "inputs">>
      [] most_severe.bottleneck_type = "output_blocked" ->
            <<"backing up due to insufficient downstream consumption",
              most_severe.item_name>>
      [] most_severe.bottleneck_type = "low_efficiency" ->
            <<"production lines running below optimal efficiency", ToString(count)>>
      [] OTHER -> <<"bottlenecks detected affecting factory throughput", ToString(count)>>

\* Rounded numbers (round(x, 1)) are kept as their number of tenths.
_generate_summary(bottlenecks, total_assemblers, inefficient_assemblers) ==
    IF bottlenecks = <<>>
    THEN [status |-> "healthy",
          message |-> <<"No significant bottlenecks detected">>,
          efficiency |-> IF total_assemblers = 0 THEN 1000
                         ELSE RoundTenths(Frac((total_assemblers - inefficient_assemblers) * 100,
                                               total_assemblers))]
    ELSE LET most_severe == bottlenecks[1]
             denominator == IF total_assemblers < 1 THEN 1 ELSE total_assemblers
         IN [status |-> IF FracLt(FracInt(80), most_severe.severity) THEN "critical"
                        ELSE IF FracLt(FracInt(50), most_severe.severity) THEN "warning"
                        ELSE "minor",
             total_bottlenecks |-> Len(bottlenecks),
             most_common_type |-> MostCommonType(bottlenecks),
             most_severe_item |-> most_severe.item_name,
             most_severe_type |-> most_severe.bottleneck_type,
             efficiency |-> RoundTenths(Frac((denominator - inefficient_assemblers) * 100,
                                             denominator)),
             message |-> _generate_summary_message(most_severe, Len(bottlenecks))]


\* One entry of the report's bottlenecks list.
ReportEntry(b) ==
    [item |-> b.item_name, item_id |-> b.item_id, recipe_id |-> b.recipe_id,
     planet_id |-> b.planet_id, type |-> b.bottleneck_type,
     severity |-> RoundTenths(b.severity),
     efficiency |-> RoundTenths(b.efficiency),
     throughput_loss |-> RoundHundredths(FracInt(b.affected_throughput)),
     assembler_count |-> b.assembler_count,
     root_cause |-> b.root_cause, recommendation |-> b.recommendation,
     upstream_items |-> b.upstream_items, downstream_impact |-> b.downstream_impact]

TopBottlenecks == 10

(***************************************************************************)
(* BottleneckAnalyzer.analyze, statement by statement.  p holds the call's *)
(* arguments, l its local variables and its position:                      *)
(*   "call"    entered, nothing run yet                                    *)
(*   "planets" at the head of the planet loop, l.index the next planet     *)
(*   "groups"  inside a planet, l.keys the recipe groups still to analyse  *)
(*   "done"    returned, l.report the dictionary                           *)
(***************************************************************************)
\* The locals set up before the planet loop.  acc holds the accumulators
\* (bottlenecks and the three counters), the rest is the loop position.
bottleneck_enter(p) ==
    [pc |-> "planets", target_item_id |-> TargetIdOf(p.target_item),
     index |-> 1, keys |-> <<>>,
     acc |-> [bottlenecks |-> <<>>, planets_analyzed |-> 0, total_assemblers |-> 0,
              inefficient_assemblers |-> 0],
     report |-> NoReport]

\* The head of one iteration of the planet loop: the filter, the counters
\* and the grouping of the planet's buildings by recipe.
bottleneck_planet(p, l, factory_state) ==
    LET planet == factory_state.planets[l.index]
        keys == RecipeKeys(planet.assemblers, {})
    IN IF ~SelectsPlanet(p.planet_id, planet.pid)
       THEN [l EXCEPT !.index = @ + 1]
       ELSE [l EXCEPT !.acc.planets_analyzed = @ + 1,
                      !.acc.total_assemblers = @ + Len(planet.assemblers),
                      !.keys = keys,
                      !.index = IF keys = <<>> THEN @ + 1 ELSE @,
                      !.pc = IF keys = <<>> THEN "planets" ELSE "groups"]

\* group_bottleneck.planet_id = pid: the write goes to the Bottleneck the
\* call created; the planet is read.
SetPlanetId(group_bottleneck, planet) ==
    [group_bottleneck |-> [group_bottleneck EXCEPT !.planet_id = planet.pid],
     planet |-> planet]

\* Mutant of bottleneck_group: the group of an unknown recipe is not skipped
\* at the head of the iteration, so that its buildings reach the count of
\* inefficient buildings.
bottleneck_group_unknown_counted(p, l, factory_state) ==
    LET planet == factory_state.planets[l.index]
        recipe_id == Head(l.keys)
        recipe_assemblers == RecipeGroup(planet.assemblers, recipe_id)
        recipe == get_recipe(recipe_id)
        next == [l EXCEPT !.keys = Tail(@),
                          !.index = IF Len(l.keys) = 1 THEN @ + 1 ELSE @,
                          !.pc = IF Len(l.keys) = 1 THEN "planets" ELSE "groups"]
        group_bottleneck == _analyze_recipe_group(recipe_id, recipe_assemblers, planet,
                                                  p.include_downstream)
        stamped == SetPlanetId(group_bottleneck, planet)
        inefficient == Len(SelectSeq(recipe_assemblers, LAMBDA asm : asm.efficiency < 90))
    IN IF recipe = NoRecipe
       THEN [locals |-> [next EXCEPT !.acc.inefficient_assemblers = @ + inefficient],
             planet |-> planet]
       ELSE IF ~PassesTarget(recipe, l.target_item_id) THEN [locals |-> next, planet |-> planet]
       ELSE IF group_bottleneck = NoBottleneck
            THEN [locals |-> [next EXCEPT !.acc.inefficient_assemblers = @ + inefficient],
                  planet |-> planet]
            ELSE [locals |-> [next EXCEPT !.acc.bottlenecks = Append(@, stamped.group_bottleneck),
                                          !.acc.inefficient_assemblers = @ + inefficient],
                  planet |-> stamped.planet]

\* One iteration of the recipe group loop.  The result holds the locals and
\* the planet as the iteration leaves them.
bottleneck_group(p, l, factory_state) ==
    LET planet == factory_state.planets[l.index]
        recipe_id == Head(l.keys)
        recipe_assemblers == RecipeGroup(planet.assemblers, recipe_id)
        recipe == get_recipe(recipe_id)
        next == [l EXCEPT !.keys = Tail(@),
                          !.index = IF Len(l.keys) = 1 THEN @ + 1 ELSE @,
                          !.pc = IF Len(l.keys) = 1 THEN "planets" ELSE "groups"]
        group_bottleneck == _analyze_recipe_group(recipe_id, recipe_assemblers, planet,
                                                  p.include_downstream)
        stamped == SetPlanetId(group_bottleneck, planet)
        inefficient == Len(SelectSeq(recipe_assemblers, LAMBDA asm : asm.efficiency < 90))
    IN IF recipe = NoRecipe THEN [locals |-> next, planet |-> planet]
       ELSE IF ~PassesTarget(recipe, l.target_item_id) THEN [locals |-> next, planet |-> planet]
       ELSE IF group_bottleneck = NoBottleneck
            THEN [locals |-> [next EXCEPT !.acc.inefficient_assemblers = @ + inefficient],
                  planet |-> planet]
            ELSE [locals |-> [next EXCEPT !.acc.bottlenecks = Append(@, stamped.group_bottleneck),
                                          !.acc.inefficient_assemblers = @ + inefficient],
                  planet |-> stamped.planet]

\* Mutant of bottleneck_return: the critical path built whether or not
\* include_downstream is set.
bottleneck_return_always_path(p, l, factory_state) ==
    LET bottlenecks == SortBySeverity(l.acc.bottlenecks, <<>>)
        critical_path == _build_critical_path(bottlenecks, l.target_item_id)
        summary == _generate_summary(bottlenecks, l.acc.total_assemblers,
                                     l.acc.inefficient_assemblers)
        top == Take(bottlenecks, TopBottlenecks)
    IN [l EXCEPT !.pc = "done",
                 !.acc.bottlenecks = bottlenecks,
                 !.report =
                    [engine |-> "bottleneck",
                     timestamp |-> <<"isoformat", factory_state.timestamp>>,
                     planets_analyzed |-> l.acc.planets_analyzed,
                     total_assemblers |-> l.acc.total_assemblers,
                     inefficient_assemblers |-> l.acc.inefficient_assemblers,
                     bottlenecks_found |-> Len(bottlenecks),
                     summary |-> summary,
                     bottlenecks |-> [k \in 1..Len(top) |-> ReportEntry(top[k])],
                     critical_path |-> critical_path]]

\* After the loop: the sort (in place), the critical path, the summary and
\* the dictionary returned.
bottleneck_return(p, l, factory_state) ==
    LET bottlenecks == SortBySeverity(l.acc.bottlenecks, <<>>)
        critical_path == IF p.include_downstream
                         THEN _build_critical_path(bottlenecks, l.target_item_id)
                         ELSE <<>>
        summary == _generate_summary(bottlenecks, l.acc.total_assemblers,
                                     l.acc.inefficient_assemblers)
        top == Take(bottlenecks, TopBottlenecks)
    IN [l EXCEPT !.pc = "done",
                 !.acc.bottlenecks = bottlenecks,
                 !.report =
                    [engine |-> "bottleneck",
                     timestamp |-> <<"isoformat", factory_state.timestamp>>,
                     planets_analyzed |-> l.acc.planets_analyzed,
                     total_assemblers |-> l.acc.total_assemblers,
                     inefficient_assemblers |-> l.acc.inefficient_assemblers,
                     bottlenecks_found |-> Len(bottlenecks),
                     summary |-> summary,
                     bottlenecks |-> [k \in 1..Len(top) |-> ReportEntry(top[k])],
                     critical_path |-> critical_path]]

(***************************************************************************)
(* LogisticsAnalyzer (tools/logistics_analyzer.py).                        *)
(***************************************************************************)
\* Belt tier maximum throughput (items / sec).
BELT_TIERS == [mk1 |-> 6, mk2 |-> 12, mk3 |-> 30]

TierOrder == <<"mk1", "mk2", "mk3">>

_detect_tier(max_throughput) ==
    IF max_throughput <= 6 THEN "mk1"
    ELSE IF max_throughput <= 12 THEN "mk2"
    ELSE "mk3"

_upgrade_recommendation(belt) ==
    LET current_tier == _detect_tier(belt.max_throughput)
    IN IF current_tier = "mk1" THEN "Upgrade to Mk2 (green) belt for 2x throughput"
       ELSE IF current_tier = "mk2" THEN "Upgrade to Mk3 (yellow) belt for 2.5x throughput"
       ELSE "At max tier - consider parallel belt lines"

\* The synthetic key of an item id.
ItemKey(item_id) == "item_" \o ToString(item_id)

\* The ids a synthetic key may encode.
KeyIds == 0..99

\* item_type.startswith("item_") with a number behind the prefix.
IsSynthetic(item_type) == \E i \in KeyIds : item_type = ItemKey(i)

\* item_display: the name a synthetic key resolves to unless that is a
\* placeholder again, else the raw value.
ItemDisplay(item_type) ==
    IF IsSynthetic(item_type)
    THEN LET resolved_name == get_item_name(CHOOSE i \in KeyIds : item_type = ItemKey(i))
         IN IF ~IsSynthetic(resolved_name) THEN resolved_name ELSE item_type
    ELSE item_type

\* The item filter lets the belt through.
PassesItemFilter(item_filter, item_display, item_type) ==
    \/ item_filter = {}
    \/ item_display \in item_filter
    \/ item_type \in item_filter

\* d[key] = value on a dictionary.
WithKey(d, key, value) ==
    [f \in DOMAIN d \cup {key} |-> IF f = key THEN value ELSE d[f]]

BeltData(pid, belt, item_display) ==
    [planet_id |-> pid, belt_id |-> belt.belt_id, item |-> item_display,
     throughput |-> RoundHundredths(belt.throughput),
     max_throughput |-> belt.max_throughput,
     saturation |-> RoundTenths(belt.saturation_percent)]

RECURSIVE ClassifyBeltsTwice(_, _, _, _)
\* Mutant of ClassifyBelts: the near-saturation test is an if of its own
\* instead of an elif, so a saturated belt lands in both lists.
ClassifyBeltsTwice(belts, pid, p, lists) ==
    IF belts = <<>> THEN lists
    ELSE LET belt == Head(belts)
             item_display == ItemDisplay(belt.item_type)
             belt_data == BeltData(pid, belt, item_display)
             threshold == p.saturation_threshold
             near == Frac(threshold.num - 10 * threshold.den, threshold.den)
         IN IF ~PassesItemFilter(p.item_filter, item_display, belt.item_type)
            THEN ClassifyBeltsTwice(Tail(belts), pid, p, lists)
            ELSE IF FracLe(threshold, belt.saturation_percent)
            THEN ClassifyBeltsTwice(Tail(belts), pid, p,
                    [lists EXCEPT !.saturated_belts =
                        Append(@, WithKey(WithKey(belt_data, "status", "saturated"),
                                          "recommendation", _upgrade_recommendation(belt))),
                                  !.near_saturation =
                        Append(@, WithKey(belt_data, "status", "near_saturation"))])
            ELSE IF FracLe(near, belt.saturation_percent)
            THEN ClassifyBeltsTwice(Tail(belts), pid, p,
                    [lists EXCEPT !.near_saturation =
                        Append(@, WithKey(belt_data, "status", "near_saturation"))])
            ELSE ClassifyBeltsTwice(Tail(belts), pid, p, lists)

RECURSIVE ClassifyBelts(_, _, _, _)
\* The belt loop of one planet: lists holds saturated_belts and
\* near_saturation as the loop leaves them.
ClassifyBelts(belts, pid, p, lists) ==
    IF belts = <<>> THEN lists
    ELSE LET belt == Head(belts)
             item_display == ItemDisplay(belt.item_type)
             belt_data == BeltData(pid, belt, item_display)
             threshold == p.saturation_threshold
             near == Frac(threshold.num - 10 * threshold.den, threshold.den)
         IN IF ~PassesItemFilter(p.item_filter, item_display, belt.item_type)
            THEN ClassifyBelts(Tail(belts), pid, p, lists)
            ELSE IF FracLe(threshold, belt.saturation_percent)
            THEN ClassifyBelts(Tail(belts), pid, p,
                    [lists EXCEPT !.saturated_belts =
                        Append(@, WithKey(WithKey(belt_data, "status", "saturated"),
                                          "recommendation", _upgrade_recommendation(belt)))])
            ELSE IF FracLe(near, belt.saturation_percent)
            THEN ClassifyBelts(Tail(belts), pid, p,
                    [lists EXCEPT !.near_saturation =
                        Append(@, WithKey(belt_data, "status", "near_saturation"))])
            ELSE ClassifyBelts(Tail(belts), pid, p, lists)

CountOfItem(belts, item) == Len(SelectSeq(belts, LAMBDA b : b.item = item))

\* max(item_counts, key=item_counts.get): the most frequent item, the one
\* met first among equals.
MostCongested(belts) ==
    LET best == CHOOSE k \in 1..Len(belts) :
                  /\ \A j \in 1..Len(belts) :
                        CountOfItem(belts, belts[j].item) <= CountOfItem(belts, belts[k].item)
                  /\ \A j \in 1..(k - 1) :
                        CountOfItem(belts, belts[j].item) < CountOfItem(belts, belts[k].item)
    IN belts[best].item

_global_recommendations(saturated_belts) ==
    IF Len(saturated_belts) = 0
    THEN <<<<"No saturated belts detected - logistics healthy">>>>
    ELSE IF Len(saturated_belts) < 5
    THEN <<<<"saturated belts - targeted upgrades recommended", Len(saturated_belts)>>>>
    ELSE <<<<"saturated belts - consider systematic belt upgrade", Len(saturated_belts)>>,
           <<"Most congested item", MostCongested(saturated_belts),
             CountOfItem(saturated_belts, MostCongested(saturated_belts))>>>>

\* production_by_item[item_id]: every output entry of a known recipe adds
\* the building's production_rate.
ProductionOf(assemblers, item_id) ==
    SumSeq([k \in 1..Len(assemblers) |->
        LET recipe == get_recipe(assemblers[k].recipe_id)
        IN IF recipe = NoRecipe THEN 0
           ELSE assemblers[k].production_rate
                  * Len(SelectSeq(recipe.outputs, LAMBDA output : output.item_id = item_id))])

\* consumption_by_item[item_id]: cycles_per_min * inp.count over the inputs
\* of the buildings that produce.  (Every primary output count of the
\* catalog is 1, so the quotient is whole.)
ConsumptionOf(assemblers, item_id) ==
    SumSeq([k \in 1..Len(assemblers) |->
        LET recipe == get_recipe(assemblers[k].recipe_id)
        IN IF recipe = NoRecipe THEN 0
           ELSE IF assemblers[k].production_rate > 0 /\ recipe.time > 0
           THEN SumSeq([i \in 1..Len(recipe.inputs) |->
                    IF recipe.inputs[i].item_id = item_id
                    THEN (assemblers[k].production_rate * recipe.inputs[i].count)
                            \div recipe.primary_output_count
                    ELSE 0])
           ELSE 0])

\* The keys of production_by_item.
ProducedItems(assemblers) ==
    UNION {{get_recipe(assemblers[k].recipe_id).outputs[i].item_id :
                i \in 1..Len(get_recipe(assemblers[k].recipe_id).outputs)} :
           k \in {j \in 1..Len(assemblers) : get_recipe(assemblers[j].recipe_id) # NoRecipe}}

\* The keys of consumption_by_item.
ConsumedItems(assemblers) ==
    UNION {{get_recipe(assemblers[k].recipe_id).inputs[i].item_id :
                i \in 1..Len(get_recipe(assemblers[k].recipe_id).inputs)} :
           k \in {j \in 1..Len(assemblers) :
                    /\ get_recipe(assemblers[j].recipe_id) # NoRecipe
                    /\ assemblers[j].production_rate > 0
                    /\ get_recipe(assemblers[j].recipe_id).time > 0}}

Max(a, b) == IF a < b THEN b ELSE a

\* flow_per_sec = max_flow / 60, as a fraction.
FlowPerSec(max_flow) == Frac(max_flow, 60)

\* int(x / capacity) for x >= 0.
IntQuotient(x, capacity) == x.num \div (x.den * capacity)

\* Mutant of RequiredTier: the tier limits taken exclusively.
RequiredTierBelowLimit(flow_per_sec) ==
    IF FracLt(flow_per_sec, FracInt(BELT_TIERS.mk1)) THEN "mk1"
    ELSE IF FracLt(flow_per_sec, FracInt(BELT_TIERS.mk2)) THEN "mk2"
    ELSE "mk3"

\* The if / elif / else chain over the tier limits.
RequiredTier(flow_per_sec) ==
    IF FracLe(flow_per_sec, FracInt(BELT_TIERS.mk1)) THEN "mk1"
    ELSE IF FracLe(flow_per_sec, FracInt(BELT_TIERS.mk2)) THEN "mk2"
    ELSE "mk3"

\* max(1, int(flow_per_sec / BELT_TIERS[tier]) + 1) if flow_per_sec > 0 else 0
BeltCount(flow_per_sec, tier) ==
    IF FracLt(FracInt(0), flow_per_sec)
    THEN Max(1, IntQuotient(flow_per_sec, BELT_TIERS[tier]) + 1)
    ELSE 0

\* The requirements in the order of the loop over all_items (ascending item
\* id, the iteration order of a set of small integers).
_calculate_throughput_requirements(assemblers) ==
    LET all_items == SetToSeq(ProducedItems(assemblers) \cup ConsumedItems(assemblers))
    IN [k \in 1..Len(all_items) |->
          LET item_id == all_items[k]
              production == ProductionOf(assemblers, item_id)
              consumption == ConsumptionOf(assemblers, item_id)
              flow_per_sec == FlowPerSec(Max(production, consumption))
              required_tier == RequiredTier(flow_per_sec)
          IN [item_id |-> item_id,
              item_name |-> get_item_name(item_id),
              production_rate |-> production,
              consumption_rate |-> consumption,
              net_rate |-> production - consumption,
              required_belt_tier |-> required_tier,
              belt_count_needed |-> BeltCount(flow_per_sec, required_tier)]]

RequirementEntry(r) ==
    [item |-> r.item_name, item_id |-> r.item_id,
     production_rate |-> RoundHundredths(FracInt(r.production_rate)),
     consumption_rate |-> RoundHundredths(FracInt(r.consumption_rate)),
     net_rate |-> RoundHundredths(FracInt(r.net_rate)),
     required_belt_tier |-> r.required_belt_tier,
     belt_count_needed |-> r.belt_count_needed]

TopSaturated == 20
TopNearSaturation == 10
TopRequirements == 15

(***************************************************************************)
(* LogisticsAnalyzer.analyze, statement by statement.                      *)
(***************************************************************************)
logistics_enter(p) ==
    [pc |-> "planets", index |-> 1,
     acc |-> [saturated_belts |-> <<>>, near_saturation |-> <<>>, all_assemblers |-> <<>>],
     requirements |-> <<>>,
     report |-> NoReport]

\* all_assemblers.extend(planet.assemblers): the list the call created
\* grows; the planet's list is read.
ExtendAssemblers(all_assemblers, planet) ==
    [all_assemblers |-> all_assemblers \o planet.assemblers, planet |-> planet]

\* One iteration of the planet loop.  The result holds the locals and the
\* planet as the iteration leaves them.
logistics_planet(p, l, factory_state) ==
    LET planet == factory_state.planets[l.index]
        extended == ExtendAssemblers(l.acc.all_assemblers, planet)
        lists == ClassifyBelts(planet.belts, planet.pid, p,
                               [saturated_belts |-> l.acc.saturated_belts,
                                near_saturation |-> l.acc.near_saturation])
    IN IF ~SelectsPlanet(p.planet_id, planet.pid)
       THEN [locals |-> [l EXCEPT !.index = @ + 1], planet |-> planet]
       ELSE [locals |-> [l EXCEPT !.index = @ + 1,
                                  !.acc.all_assemblers = extended.all_assemblers,
                                  !.acc.saturated_belts = lists.saturated_belts,
                                  !.acc.near_saturation = lists.near_saturation],
             planet |-> extended.planet]

\* After the loop: the two sorts (in place), the result dictionary and the
\* throughput requirements.
logistics_return(p, l, factory_state) ==
    LET saturated_belts ==
            SortDescending(l.acc.saturated_belts,
                [k \in 1..Len(l.acc.saturated_belts) |-> l.acc.saturated_belts[k].saturation])
        near_saturation ==
            SortDescending(l.acc.near_saturation,
                [k \in 1..Len(l.acc.near_saturation) |-> l.acc.near_saturation[k].saturation])
        result == [engine |-> "logistics",
                   timestamp |-> <<"isoformat", factory_state.timestamp>>,
                   threshold |-> p.saturation_threshold,
                   summary |-> [saturated_count |-> Len(saturated_belts),
                                near_saturation_count |-> Len(near_saturation)],
                   saturated_belts |-> Take(saturated_belts, TopSaturated),
                   near_saturation |-> Take(near_saturation, TopNearSaturation),
                   recommendations |-> _global_recommendations(saturated_belts)]
        requirements == IF p.include_throughput_analysis
                        THEN _calculate_throughput_requirements(l.acc.all_assemblers)
                        ELSE <<>>
        ranked == Take(SortDescending(requirements,
                            [k \in 1..Len(requirements) |-> Abs(requirements[k].net_rate)]),
                       TopRequirements)
    IN [l EXCEPT !.pc = "done",
                 !.acc.saturated_belts = saturated_belts,
                 !.acc.near_saturation = near_saturation,
                 !.requirements = requirements,
                 !.report =
                    IF requirements # <<>>
                    THEN WithKey(result, "throughput_requirements",
                                 [k \in 1..Len(ranked) |-> RequirementEntry(ranked[k])])
                    ELSE result]

(***************************************************************************)
(* PowerAnalyzer (tools/power_analyzer.py).  Table values are hundredths   *)
(* of a MW; a consumer's power_mw is a fraction over 10000, the product of *)
(* a table value and an efficiency percentage.                             *)
(***************************************************************************)
BUILDING_POWER_CONSUMPTION ==
    [smelter |-> [mk1 |-> 36, mk2 |-> 72],
     assembler |-> [mk1 |-> 27, mk2 |-> 54, mk3 |-> 108],
     chemical |-> [mk1 |-> 72, mk2 |-> 144],
     refinery |-> [mk1 |-> 96, mk2 |-> 192],
     particle |-> [mk1 |-> 1200, mk2 |-> 2400],
     lab |-> [mk1 |-> 48, mk2 |-> 96],
     mining |-> [mk1 |-> 42, mk2 |-> 84, mk3 |-> 168],
     oil_extractor |-> [mk1 |-> 84, mk2 |-> 168],
     fractionator |-> [mk1 |-> 72],
     orbital_collector |-> [mk1 |-> 0],
     ray_receiver |-> [mk1 |-> -1500]]

\* BUILDING_POWER_CONSUMPTION.get(building_type, {}).get("mk2", 0.5)
PowerPerBuilding(building_type) ==
    IF building_type \in DOMAIN BUILDING_POWER_CONSUMPTION
    THEN IF "mk2" \in DOMAIN BUILDING_POWER_CONSUMPTION[building_type]
         THEN BUILDING_POWER_CONSUMPTION[building_type].mk2
         ELSE 50
    ELSE 50

\* PowerConsumer(..., building_count=0, power_mw=0.0, efficiency=0.0,
\* production_rate=0.0)
PowerConsumer(recipe) ==
    [recipe_id |-> recipe.id,
     item_name |-> get_item_name(recipe.primary_output_id),
     building_type |-> recipe.building,
     building_count |-> 0,
     power_mw |-> Frac(0, 10000),
     efficiency |-> FracInt(0),
     production_rate |-> 0]

\* Mutant of Accumulate: the running production total is also written to the
\* building's record.
AccumulateOnAssembler(consumer, assembler, power_per_building) ==
    [consumer |-> [consumer EXCEPT
                      !.building_count = @ + 1,
                      !.power_mw = Frac(@.num + power_per_building * assembler.efficiency,
                                        10000),
                      !.production_rate = @ + assembler.production_rate],
     assembler |-> [assembler EXCEPT !.production_rate = @ + consumer.production_rate]]

\* The three += of the loop body: the writes go to the PowerConsumer the
\* call created; the building's record is read.
Accumulate(consumer, assembler, power_per_building) ==
    [consumer |-> [consumer EXCEPT
                      !.building_count = @ + 1,
                      !.power_mw = Frac(@.num + power_per_building * assembler.efficiency,
                                        10000),
                      !.production_rate = @ + assembler.production_rate],
     assembler |-> assembler]

\* The index of the consumer of a recipe in the dictionary's values, 0 when
\* the recipe has none yet.
ConsumerIndexOf(consumers, recipe_id) ==
    IF \E k \in 1..Len(consumers) : consumers[k].recipe_id = recipe_id
    THEN CHOOSE k \in 1..Len(consumers) : consumers[k].recipe_id = recipe_id
    ELSE 0

RECURSIVE AccumulateAll(_, _, _)
\* The loop over the buildings: the consumers in insertion order, and the
\* buildings as the loop leaves them.
AccumulateAll(assemblers, consumers, left) ==
    IF assemblers = <<>> THEN [consumers |-> consumers, assemblers |-> left]
    ELSE LET assembler == Head(assemblers)
             recipe == get_recipe(assembler.recipe_id)
             known == ConsumerIndexOf(consumers, assembler.recipe_id)
             with == IF known = 0 THEN Append(consumers, PowerConsumer(recipe))
                     ELSE consumers
             at == IF known = 0 THEN Len(with) ELSE known
             written == Accumulate(with[at], assembler, PowerPerBuilding(recipe.building))
         IN IF recipe = NoRecipe
            THEN AccumulateAll(Tail(assemblers), consumers, Append(left, assembler))
            ELSE AccumulateAll(Tail(assemblers), [with EXCEPT ![at] = written.consumer],
                               Append(left, written.assembler))

\* consumer.efficiency = power_mw / (building_count * table value) * 100
AverageEfficiency(consumer) ==
    IF consumer.building_count > 0
    THEN [consumer EXCEPT !.efficiency =
            Frac(consumer.power_mw.num,
                 consumer.building_count * PowerPerBuilding(consumer.building_type))]
    ELSE consumer

\* The consumers returned, and the buildings as the call leaves them.
_analyze_power_consumers(assemblers, planet_id) ==
    LET looped == AccumulateAll(assemblers, <<>>, <<>>)
    IN [consumers |-> [k \in 1..Len(looped.consumers) |->
                          AverageEfficiency(looped.consumers[k])],
        assemblers |-> looped.assemblers]

ByPower(consumers) ==
    SortDescending(consumers, [k \in 1..Len(consumers) |-> consumers[k].power_mw.num])

RECURSIVE BuildingTypes(_, _)
\* The keys of by_building in insertion order.
BuildingTypes(consumers, seen) ==
    IF consumers = <<>> THEN <<>>
    ELSE IF Head(consumers).building_type \in seen
         THEN BuildingTypes(Tail(consumers), seen)
         ELSE <<Head(consumers).building_type>>
              \o BuildingTypes(Tail(consumers), seen \cup {Head(consumers).building_type})

TotalPower(consumers) == SumSeq([k \in 1..Len(consumers) |-> consumers[k].power_mw.num])

TopPlanetConsumers == 5
TopPowerConsumers == 10

_generate_power_breakdown(consumers) ==
    LET types == BuildingTypes(consumers, {})
        by_building == [k \in 1..Len(types) |->
                          [building_type |-> types[k],
                           power |-> TotalPower(SelectSeq(consumers,
                                        LAMBDA c : c.building_type = types[k]))]]
        sorted == SortDescending(by_building,
                                 [k \in 1..Len(by_building) |-> by_building[k].power])
        top_consumers == Take(ByPower(consumers), TopPowerConsumers)
    IN [by_building_type |->
            [k \in 1..Len(sorted) |->
                <<sorted[k].building_type, RoundHundredths(Frac(sorted[k].power, 10000))>>],
        top_power_consumers |->
            [k \in 1..Len(top_consumers) |->
                [item |-> top_consumers[k].item_name,
                 recipe_id |-> top_consumers[k].recipe_id,
                 building_type |-> top_consumers[k].building_type,
                 building_count |-> top_consumers[k].building_count,
                 power_mw |-> RoundHundredths(top_consumers[k].power_mw),
                 production_rate |-> RoundHundredths(FracInt(top_consumers[k].production_rate))]],
        total_tracked_mw |-> RoundHundredths(Frac(TotalPower(consumers), 10000))]

\* Mutant of _generate_recommendation: the number of fusion plants rounded
\* up instead of int(deficit / 15) + 1.
_generate_recommendation_rounded_up(power) ==
    LET deficit == Abs(power.surplus_mw)
    IN IF deficit < 10
       THEN <<"Minor deficit - add 1 thermal plant", RoundTenths(FracInt(deficit))>>
       ELSE IF deficit < 50
       THEN <<"Deficit - add fusion plants", RoundTenths(FracInt(deficit)),
              (deficit + 14) \div 15>>
       ELSE <<"Major deficit - consider artificial sun or ray receivers",
              RoundTenths(FracInt(deficit))>>

_generate_recommendation(power) ==
    LET deficit == Abs(power.surplus_mw)
    IN IF deficit < 10
       THEN <<"Minor deficit - add 1 thermal plant", RoundTenths(FracInt(deficit))>>
       ELSE IF deficit < 50
       THEN <<"Deficit - add fusion plants", RoundTenths(FracInt(deficit)),
              (deficit \div 15) + 1>>
       ELSE <<"Major deficit - consider artificial sun or ray receivers",
              RoundTenths(FracInt(deficit))>>

_global_power_recommendations(generation, consumption) ==
    LET surplus == generation - consumption
        surplus_percent == IF consumption > 0 THEN Frac(surplus * 100, consumption)
                           ELSE FracInt(100)
    IN IF surplus < 0
       THEN <<<<"CRITICAL: Global power deficit", RoundTenths(FracInt(Abs(surplus)))>>>>
       ELSE IF FracLt(surplus_percent, FracInt(10))
       THEN <<<<"WARNING: Power surplus below 10%", RoundTenths(surplus_percent)>>,
              <<"Consider adding generation capacity before expanding">>>>
       ELSE IF FracLt(FracInt(50), surplus_percent)
       THEN <<<<"Healthy power surplus", RoundTenths(surplus_percent)>>>>
       ELSE <<>>

(***************************************************************************)
(* PowerAnalyzer.analyze, statement by statement.                          *)
(***************************************************************************)
power_enter(p) ==
    [pc |-> "planets", index |-> 1,
     acc |-> [planets_data |-> <<>>, total_generation |-> 0, total_consumption |-> 0,
              deficits_found |-> 0, all_consumers |-> <<>>],
     report |-> NoReport]

\* The planet_data dictionary of one planet.
PlanetData(p, planet, consumers) ==
    LET power == planet.power
        base == [planet_id |-> planet.pid,
                 planet_name |-> planet.planet_name,
                 generation_mw |-> RoundHundredths(FracInt(power.generation_mw)),
                 consumption_mw |-> RoundHundredths(FracInt(power.consumption_mw)),
                 surplus_mw |-> RoundHundredths(FracInt(power.surplus_mw)),
                 status |-> IF power.surplus_mw >= 0 THEN "surplus" ELSE "deficit"]
        advised == IF power.surplus_mw < 0
                   THEN WithKey(base, "recommendation", _generate_recommendation(power))
                   ELSE base
        charged == IF p.include_accumulator_cycles
                   THEN WithKey(advised, "accumulator_charge",
                                RoundTenths(FracInt(power.accumulator_charge_percent)))
                   ELSE advised
        top == Take(ByPower(consumers), TopPlanetConsumers)
    IN IF p.include_consumers /\ consumers # <<>>
       THEN WithKey(charged, "top_consumers",
                [k \in 1..Len(top) |->
                    [item |-> top[k].item_name,
                     power_mw |-> RoundHundredths(top[k].power_mw),
                     building_count |-> top[k].building_count,
                     efficiency |-> RoundTenths(top[k].efficiency)]])
       ELSE charged

\* One iteration of the planet loop.  The result holds the locals and the
\* planet as the iteration leaves them.
power_planet(p, l, factory_state) ==
    LET planet == factory_state.planets[l.index]
        power == planet.power
        analysed == IF p.include_consumers
                    THEN _analyze_power_consumers(planet.assemblers, planet.pid)
                    ELSE [consumers |-> <<>>, assemblers |-> planet.assemblers]
    IN IF ~SelectsPlanet(p.planet_id, planet.pid)
       THEN [locals |-> [l EXCEPT !.index = @ + 1], planet |-> planet]
       ELSE IF power = NoPower
       THEN [locals |-> [l EXCEPT !.index = @ + 1], planet |-> planet]
       ELSE [locals |->
                [l EXCEPT !.index = @ + 1,
                          !.acc.total_generation = @ + power.generation_mw,
                          !.acc.total_consumption = @ + power.consumption_mw,
                          !.acc.deficits_found = IF power.surplus_mw < 0 THEN @ + 1 ELSE @,
                          !.acc.all_consumers = @ \o analysed.consumers,
                          !.acc.planets_data =
                              Append(@, PlanetData(p, planet, analysed.consumers))],
             planet |-> [planet EXCEPT !.assemblers = analysed.assemblers]]

\* After the loop: the result dictionary.
power_return(p, l, factory_state) ==
    LET result == [engine |-> "power",
                   timestamp |-> <<"isoformat", factory_state.timestamp>>,
                   summary |->
                      [total_generation_mw |-> RoundHundredths(FracInt(l.acc.total_generation)),
                       total_consumption_mw |-> RoundHundredths(FracInt(l.acc.total_consumption)),
                       net_surplus_mw |-> RoundHundredths(FracInt(l.acc.total_generation
                                                                  - l.acc.total_consumption)),
                       planets_with_deficit |-> l.acc.deficits_found],
                   planets |-> l.acc.planets_data,
                   recommendations |-> _global_power_recommendations(l.acc.total_generation,
                                                                     l.acc.total_consumption)]
    IN [l EXCEPT !.pc = "done",
                 !.report =
                    IF p.include_consumers /\ l.acc.all_consumers # <<>>
                    THEN WithKey(result, "power_breakdown",
                                 _generate_power_breakdown(l.acc.all_consumers))
                    ELSE result]

(***************************************************************************)
(* The recipe database singleton and the db property.                      *)
(***************************************************************************)
\* get_recipe_database(): the guarded build.  The first call constructs the
\* instance, every call returns the one instance.
get_recipe_database(singleton) ==
    IF singleton.instance = None
    THEN [instance |-> singleton.builds + 1,
          database |-> [instance |-> singleton.builds + 1, builds |-> singleton.builds + 1]]
    ELSE [instance |-> singleton.instance, database |-> singleton]

\* Mutant of LoadDatabase: the property constructs a RecipeDatabase itself.
ConstructDatabase(singleton) ==
    [instance |-> singleton.builds + 1,
     database |-> [singleton EXCEPT !.builds = @ + 1]]

\* The right-hand side of self._db = get_recipe_database().
LoadDatabase(singleton) == get_recipe_database(singleton)

\* The db property run without interruption: the analyzer and the singleton
\* as it leaves them, and the instance it returns.
db(analyzer, singleton) ==
    IF analyzer._db = None
    THEN LET got == LoadDatabase(singleton)
         IN [analyzer |-> [analyzer EXCEPT !._db = got.instance],
             database |-> got.database, value |-> got.instance]
    ELSE [analyzer |-> analyzer, database |-> singleton, value |-> analyzer._db]

(***************************************************************************)
(* Calls.  Each call owns its locals; a step reads the call's frame and    *)
(* stores it back.                                                         *)
(***************************************************************************)
\* Mutant of AccumulatorsOf: the accumulators kept on the analyzer instance,
\* where the calls of one engine share them.
AccumulatorsOnAnalyzer(c) ==
    CHOOSE d \in CallIds :
        /\ params[d].engine = params[c].engine
        /\ \A e \in CallIds : params[e].engine = params[c].engine => d <= e

\* The accumulators a call works on are its own local variables.
AccumulatorsOf(c) == c

Started == [pc |-> "call", acc |-> <<>>, report |-> NoReport]

Frame(c) == [locals[c] EXCEPT !.acc = locals[AccumulatorsOf(c)].acc]

Store(c, l) ==
    locals' = [d \in CallIds |->
                 IF d = c
                 THEN [l EXCEPT !.acc = IF AccumulatorsOf(c) = c THEN l.acc ELSE locals[c].acc]
                 ELSE IF d = AccumulatorsOf(c) THEN [locals[d] EXCEPT !.acc = l.acc]
                 ELSE locals[d]]

\* The step evaluates self.db on the analyzer of engine e.
ReadsDb(e) ==
    /\ analyzers' = [analyzers EXCEPT ![e] = db(analyzers[e], database).analyzer]
    /\ database' = db(analyzers[e], database).database

BottleneckEnter(c) ==
    /\ params[c].engine = "bottleneck"
    /\ locals[c].pc = "call"
    /\ Store(c, bottleneck_enter(params[c]))
    /\ IF params[c].target_item # ""
       THEN ReadsDb("bottleneck")
       ELSE UNCHANGED <<analyzers, database>>
    /\ UNCHANGED <<graph, trace, snapshot, access, params>>

BottleneckPlanet(c) ==
    /\ params[c].engine = "bottleneck"
    /\ locals[c].pc = "planets"
    /\ locals[c].index <= Len(snapshot.planets)
    /\ Store(c, bottleneck_planet(params[c], Frame(c), snapshot))
    /\ UNCHANGED <<graph, trace, snapshot, database, analyzers, access, params>>

BottleneckGroup(c) ==
    /\ params[c].engine = "bottleneck"
    /\ locals[c].pc = "groups"
    /\ \E r \in {bottleneck_group(params[c], Frame(c), snapshot)} :
          /\ Store(c, r.locals)
          /\ snapshot' = [snapshot EXCEPT !.planets[locals[c].index] = r.planet]
    /\ ReadsDb("bottleneck")
    /\ UNCHANGED <<graph, trace, access, params>>

BottleneckReturn(c) ==
    /\ params[c].engine = "bottleneck"
    /\ locals[c].pc = "planets"
    /\ locals[c].index > Len(snapshot.planets)
    /\ Store(c, bottleneck_return(params[c], Frame(c), snapshot))
    /\ IF params[c].include_downstream /\ Frame(c).acc.bottlenecks # <<>>
       THEN ReadsDb("bottleneck")
       ELSE UNCHANGED <<analyzers, database>>
    /\ UNCHANGED <<graph, trace, snapshot, access, params>>

LogisticsEnter(c) ==
    /\ params[c].engine = "logistics"
    /\ locals[c].pc = "call"
    /\ Store(c, logistics_enter(params[c]))
    /\ UNCHANGED <<graph, trace, snapshot, database, analyzers, access, params>>

LogisticsPlanet(c) ==
    /\ params[c].engine = "logistics"
    /\ locals[c].pc = "planets"
    /\ locals[c].index <= Len(snapshot.planets)
    /\ \E r \in {logistics_planet(params[c], Frame(c), snapshot)} :
          /\ Store(c, r.locals)
          /\ snapshot' = [snapshot EXCEPT !.planets[locals[c].index] = r.planet]
    /\ LET planet == snapshot.planets[locals[c].index]
       IN IF /\ SelectsPlanet(params[c].planet_id, planet.pid)
             /\ \E k \in 1..Len(planet.belts) : IsSynthetic(planet.belts[k].item_type)
          THEN ReadsDb("logistics")
          ELSE UNCHANGED <<analyzers, database>>
    /\ UNCHANGED <<graph, trace, access, params>>

LogisticsReturn(c) ==
    /\ params[c].engine = "logistics"
    /\ locals[c].pc = "planets"
    /\ locals[c].index > Len(snapshot.planets)
    /\ Store(c, logistics_return(params[c], Frame(c), snapshot))
    /\ IF params[c].include_throughput_analysis /\ Frame(c).acc.all_assemblers # <<>>
       THEN ReadsDb("logistics")
       ELSE UNCHANGED <<analyzers, database>>
    /\ UNCHANGED <<graph, trace, snapshot, access, params>>

PowerEnter(c) ==
    /\ params[c].engine = "power"
    /\ locals[c].pc = "call"
    /\ Store(c, power_enter(params[c]))
    /\ UNCHANGED <<graph, trace, snapshot, database, analyzers, access, params>>

PowerPlanet(c) ==
    /\ params[c].engine = "power"
    /\ locals[c].pc = "planets"
    /\ locals[c].index <= Len(snapshot.planets)
    /\ \E r \in {power_planet(params[c], Frame(c), snapshot)} :
          /\ Store(c, r.locals)
          /\ snapshot' = [snapshot EXCEPT !.planets[locals[c].index] = r.planet]
    /\ LET planet == snapshot.planets[locals[c].index]
       IN IF /\ SelectsPlanet(params[c].planet_id, planet.pid)
             /\ planet.power # NoPower
             /\ params[c].include_consumers
             /\ planet.assemblers # <<>>
          THEN ReadsDb("power")
          ELSE UNCHANGED <<analyzers, database>>
    /\ UNCHANGED <<graph, trace, access, params>>

PowerReturn(c) ==
    /\ params[c].engine = "power"
    /\ locals[c].pc = "planets"
    /\ locals[c].index > Len(snapshot.planets)
    /\ Store(c, power_return(params[c], Frame(c), snapshot))
    /\ UNCHANGED <<graph, trace, snapshot, database, analyzers, access, params>>

(***************************************************************************)
(* The db property statement by statement, for callers that reach it at    *)
(* the same time.  A caller is at                                          *)
(*   "check"  before the test self._db is None                             *)
(*   "load"   the test was true: before the call of get_recipe_database    *)
(*   "store"  before the assignment to self._db                            *)
(*   "return" before return self._db                                       *)
(*   "done"   holding the instance returned                                *)
(***************************************************************************)
DbCall(k) ==
    /\ access[k].pc = "idle"
    /\ \E e \in Engines :
          access' = [access EXCEPT ![k] = [pc |-> "check", analyzer |-> e,
                                           got |-> None, value |-> None]]
    /\ UNCHANGED <<graph, trace, snapshot, database, analyzers, params, locals>>

DbCheck(k) ==
    /\ access[k].pc = "check"
    /\ access' = [access EXCEPT ![k].pc =
                    IF analyzers[access[k].analyzer]._db = None THEN "load" ELSE "return"]
    /\ UNCHANGED <<graph, trace, snapshot, database, analyzers, params, locals>>

DbLoad(k) ==
    /\ access[k].pc = "load"
    /\ access' = [access EXCEPT ![k].pc = "store",
                                ![k].got = LoadDatabase(database).instance]
    /\ database' = LoadDatabase(database).database
    /\ UNCHANGED <<graph, trace, snapshot, analyzers, params, locals>>

DbStore(k) ==
    /\ access[k].pc = "store"
    /\ analyzers' = [analyzers EXCEPT ![access[k].analyzer]._db = access[k].got]
    /\ access' = [access EXCEPT ![k].pc = "return"]
    /\ UNCHANGED <<graph, trace, snapshot, database, params, locals>>

DbReturn(k) ==
    /\ access[k].pc = "return"
    /\ access' = [access EXCEPT ![k].pc = "done",
                                ![k].value = analyzers[access[k].analyzer]._db]
    /\ UNCHANGED <<graph, trace, snapshot, database, analyzers, params, locals>>

InitDb ==
    /\ graph = Catalog
    /\ trace = TraceIdle
    /\ snapshot = NoSnapshot
    /\ database = NoDatabase
    /\ analyzers = NoAnalyzers
    /\ access = NoAccess
    /\ params = NoCalls
    /\ locals = NoLocals

NextDb ==
    \E k \in Callers : DbCall(k) \/ DbCheck(k) \/ DbLoad(k) \/ DbStore(k) \/ DbReturn(k)

SpecDb == InitDb /\ [][NextDb]_vars

(***************************************************************************)
(* Spec: one call of BottleneckAnalyzer.analyze on a snapshot of a bounded *)
(* family.                                                                 *)
(***************************************************************************)
MaxAssemblers == 2
MaxGroup == 10

Asm(recipe_id, production_rate, theoretical_max, efficiency, input_starved, output_blocked) ==
    [recipe_id |-> recipe_id, production_rate |-> production_rate,
     theoretical_max |-> theoretical_max, efficiency |-> efficiency,
     input_starved |-> input_starved, output_blocked |-> output_blocked]

\* A recipe id the catalog does not hold.
UnknownRecipe == Len(CatalogRecipes) + 6

AssemblerKinds ==
    {Asm(1, 60, 60, 100, FALSE, FALSE),
     Asm(1, 45, 60, 75, FALSE, FALSE),
     Asm(2, 0, 60, 0, TRUE, FALSE),
     Asm(2, 60, 60, 100, TRUE, TRUE),
     Asm(2, 60, 60, 100, FALSE, FALSE),
     Asm(3, 0, 30, 0, FALSE, TRUE),
     Asm(3, 15, 0, 50, FALSE, FALSE),
     Asm(UnknownRecipe, 10, 20, 50, TRUE, FALSE)}

GroupKinds ==
    {Asm(2, 0, 60, 0, TRUE, FALSE),
     Asm(2, 60, 60, 100, FALSE, FALSE)}

SeqsUpTo(S, n) == UNION {[1..k -> S] : k \in 0..n}

Power(generation_mw, consumption_mw) ==
    [generation_mw |-> generation_mw, consumption_mw |-> consumption_mw,
     surplus_mw |-> generation_mw - consumption_mw,
     accumulator_charge_percent |-> 50]

Planet(pid, assemblers, belts, power) ==
    [pid |-> pid, planet_name |-> "planet", assemblers |-> assemblers,
     belts |-> belts, power |-> power]

Snapshot(planets) == [timestamp |-> 1, planets |-> planets]

\* The second planet of a two-planet snapshot: empty, one starved gear
\* building, or one blocked motor building.
SecondPlanets ==
    {<<>>, <<Asm(2, 0, 60, 0, TRUE, FALSE)>>, <<Asm(3, 0, 30, 0, FALSE, TRUE)>>}

\* No planet, one planet, or two planets.
SmallSnapshots ==
    {Snapshot(<<>>)}
    \cup {Snapshot(<<Planet(1, a, <<>>, pw)>>) :
            a \in SeqsUpTo(AssemblerKinds, MaxAssemblers),
            pw \in {NoPower, Power(80, 100)}}
    \cup {Snapshot(<<Planet(1, a, <<>>, Power(80, 100)), Planet(2, b, <<>>, Power(100, 80))>>) :
            a \in SeqsUpTo(AssemblerKinds, MaxAssemblers),
            b \in SecondPlanets}

\* One planet holding one group of up to MaxGroup buildings of one recipe.
GroupSnapshots ==
    {Snapshot(<<Planet(1, a, <<>>, NoPower)>>) : a \in SeqsUpTo(GroupKinds, MaxGroup) \ {<<>>}}

MaxPlanets == 4

\* Building lists of three recipe groups each: every group a bottleneck
\* (severities 25, 100, 100), every group a bottleneck of severity 50, and
\* one bottleneck of severity 75 among healthy groups.
CrowdedPlanets ==
    {<<Asm(1, 45, 60, 75, FALSE, FALSE), Asm(2, 0, 60, 0, TRUE, FALSE),
       Asm(3, 0, 30, 0, FALSE, TRUE)>>,
     <<Asm(1, 30, 60, 50, FALSE, FALSE), Asm(2, 0, 60, 0, TRUE, FALSE),
       Asm(2, 60, 60, 100, FALSE, FALSE), Asm(3, 15, 0, 50, FALSE, FALSE)>>,
     <<Asm(1, 60, 60, 100, FALSE, FALSE), Asm(2, 15, 60, 25, FALSE, FALSE),
       Asm(3, 30, 30, 100, FALSE, FALSE)>>}

\* MaxPlanets planets, each with one of the crowded building lists: up to
\* three bottlenecks a planet.
CrowdedSnapshots ==
    {Snapshot([pid \in 1..MaxPlanets |-> Planet(pid, a[pid], <<>>, NoPower)]) :
        a \in [1..MaxPlanets -> CrowdedPlanets]}

BottleneckCall(planet_id, target_item, include_downstream) ==
    [engine |-> "bottleneck", planet_id |-> planet_id,
     target_item |-> target_item, include_downstream |-> include_downstream]

\* "" stands for target_item not given; "Unobtainium" is in no name table.
TargetItems == {"", "Gear", "Iron Ore", "Unobtainium"}

BottleneckCalls ==
    {BottleneckCall(None, t, d) : t \in TargetItems, d \in BOOLEAN}
    \cup {BottleneckCall(pid, "", d) : pid \in {2, 3}, d \in BOOLEAN}

Init ==
    /\ graph = Catalog
    /\ trace = TraceIdle
    /\ database = NoDatabase
    /\ analyzers = NoAnalyzers
    /\ access = NoAccess
    /\ \/ /\ snapshot \in SmallSnapshots
          /\ \E p \in BottleneckCalls : params = [NoCalls EXCEPT ![1] = p]
       \/ /\ snapshot \in GroupSnapshots
          /\ params = [NoCalls EXCEPT ![1] = BottleneckCall(None, "", TRUE)]
       \/ /\ snapshot \in CrowdedSnapshots
          /\ \E d \in BOOLEAN : params = [NoCalls EXCEPT ![1] = BottleneckCall(None, "", d)]
    /\ locals = [NoLocals EXCEPT ![1] = Started]

Next ==
    \/ BottleneckEnter(1)
    \/ BottleneckPlanet(1)
    \/ BottleneckGroup(1)
    \/ BottleneckReturn(1)

Spec == Init /\ [][Next]_vars

(***************************************************************************)
(* SpecLogistics: one call of LogisticsAnalyzer.analyze.  The production   *)
(* rates put the flows on, just below and just above the tier limits       *)
(* (360, 720 and 1800 items / min are 6, 12 and 30 items / sec).           *)
(***************************************************************************)
MaxLogisticsAssemblers == 2

Rates == {0, 180, 359, 360, 361, 720, 721, 1800, 1801}

Producer(recipe_id, production_rate) ==
    Asm(recipe_id, production_rate, production_rate, 100, FALSE, FALSE)

LogisticsKinds ==
    {Producer(r, x) : r \in {2, 3}, x \in Rates} \cup {Producer(UnknownRecipe, 360)}

Belt(belt_id, item_type, throughput, max_throughput, saturation_percent) ==
    [belt_id |-> belt_id, item_type |-> item_type, throughput |-> throughput,
     max_throughput |-> max_throughput, saturation_percent |-> saturation_percent]

\* A saturated mk1 belt under a synthetic key, a belt near saturation and
\* an idle belt.
SomeBelts ==
    <<Belt(1, "item_3", FracInt(6), 6, FracInt(100)),
      Belt(2, "Motor", Frac(27, 1), 30, FracInt(90)),
      Belt(3, "item_77", FracInt(1), 12, Frac(25, 3))>>

LogisticsSnapshots ==
    {Snapshot(<<Planet(1, a, b, NoPower)>>) :
        a \in SeqsUpTo(LogisticsKinds, MaxLogisticsAssemblers), b \in {<<>>, SomeBelts}}
    \cup {Snapshot(<<Planet(1, <<a>>, <<>>, NoPower), Planet(2, <<b>>, SomeBelts, NoPower)>>) :
            a \in LogisticsKinds, b \in LogisticsKinds}

LogisticsCall(planet_id, item_filter, saturation_threshold, include_throughput_analysis) ==
    [engine |-> "logistics", planet_id |-> planet_id, item_filter |-> item_filter,
     saturation_threshold |-> saturation_threshold,
     include_throughput_analysis |-> include_throughput_analysis]

LogisticsCalls ==
    {LogisticsCall(pid, f, FracInt(95), t) :
        pid \in {None, 2}, f \in {{}, {"Gear"}}, t \in BOOLEAN}

InitLogistics ==
    /\ graph = Catalog
    /\ trace = TraceIdle
    /\ database = NoDatabase
    /\ analyzers = NoAnalyzers
    /\ access = NoAccess
    /\ snapshot \in LogisticsSnapshots
    /\ \E p \in LogisticsCalls : params = [NoCalls EXCEPT ![1] = p]
    /\ locals = [NoLocals EXCEPT ![1] = Started]

NextLogistics ==
    \/ LogisticsEnter(1)
    \/ LogisticsPlanet(1)
    \/ LogisticsReturn(1)

SpecLogistics == InitLogistics /\ [][NextLogistics]_vars

(***************************************************************************)
(* SpecCalls: two analyze calls on one snapshot, their statements          *)
(* interleaved in every order.                                             *)
(***************************************************************************)
MaxCallAssemblers == 2

CallKinds ==
    {Asm(2, 0, 60, 0, TRUE, FALSE),
     Asm(2, 30, 60, 50, FALSE, FALSE),
     Asm(3, 0, 30, 0, FALSE, TRUE),
     Asm(UnknownRecipe, 10, 20, 50, TRUE, FALSE)}

CallSnapshots ==
    {Snapshot(<<Planet(1, a, SomeBelts, Power(80, 100)),
                Planet(2, <<Asm(1, 45, 60, 75, FALSE, FALSE)>>, <<>>, NoPower)>>) :
        a \in SeqsUpTo(CallKinds, MaxCallAssemblers)}

PowerCall(planet_id, include_accumulator_cycles, include_consumers) ==
    [engine |-> "power", planet_id |-> planet_id,
     include_accumulator_cycles |-> include_accumulator_cycles,
     include_consumers |-> include_consumers]

ConcurrentCalls ==
    {BottleneckCall(None, "", TRUE), BottleneckCall(None, "Motor", FALSE),
     BottleneckCall(2, "", TRUE),
     LogisticsCall(None, {}, FracInt(95), TRUE), LogisticsCall(2, {"Gear"}, FracInt(95), FALSE),
     PowerCall(None, TRUE, TRUE), PowerCall(1, FALSE, FALSE)}

InitCalls ==
    /\ graph = Catalog
    /\ trace = TraceIdle
    /\ database = NoDatabase
    /\ analyzers = NoAnalyzers
    /\ access = NoAccess
    /\ snapshot \in CallSnapshots
    /\ params \in [CallIds -> ConcurrentCalls]
    /\ locals = [c \in CallIds |-> Started]

NextCalls ==
    \E c \in CallIds :
        \/ BottleneckEnter(c)
        \/ BottleneckPlanet(c)
        \/ BottleneckGroup(c)
        \/ BottleneckReturn(c)
        \/ LogisticsEnter(c)
        \/ LogisticsPlanet(c)
        \/ LogisticsReturn(c)
        \/ PowerEnter(c)
        \/ PowerPlanet(c)
        \/ PowerReturn(c)

SpecCalls == InitCalls /\ [][NextCalls]_vars

(***************************************************************************)
(* SpecPower: one call of PowerAnalyzer.analyze.  The power states put the *)
(* surplus on, just below and just above the limits of the recommendation  *)
(* tiers.                                                                  *)
(***************************************************************************)
MaxPowerPlanets == 2

PowerStates ==
    {NoPower, Power(100, 100), Power(100, 80), Power(95, 100), Power(91, 100),
     Power(90, 100), Power(80, 100), Power(70, 100), Power(51, 100), Power(50, 100),
     Power(0, 100)}

\* The buildings of planet pid: two production lines on planet 1, none
\* elsewhere.
PowerBuildings(pid) ==
    IF pid = 1
    THEN <<Asm(2, 30, 60, 50, FALSE, FALSE), Asm(3, 0, 30, 0, FALSE, TRUE)>>
    ELSE <<>>

PowerSnapshots ==
    {Snapshot([pid \in 1..Len(pw) |-> Planet(pid, PowerBuildings(pid), <<>>, pw[pid])]) :
        pw \in SeqsUpTo(PowerStates, MaxPowerPlanets) \ {<<>>}}

PowerCalls ==
    {PowerCall(pid, cycles, consumers) :
        pid \in {None, 1, 2}, cycles \in BOOLEAN, consumers \in BOOLEAN}

InitPower ==
    /\ graph = Catalog
    /\ trace = TraceIdle
    /\ database = NoDatabase
    /\ analyzers = NoAnalyzers
    /\ access = NoAccess
    /\ snapshot \in PowerSnapshots
    /\ \E p \in PowerCalls : params = [NoCalls EXCEPT ![1] = p]
    /\ locals = [NoLocals EXCEPT ![1] = Started]

NextPower ==
    \/ PowerEnter(1)
    \/ PowerPlanet(1)
    \/ PowerReturn(1)

SpecPower == InitPower /\ [][NextPower]_vars

(***************************************************************************)
(* SpecBelts: one call of LogisticsAnalyzer.analyze on snapshots of belts: *)
(* short belt lists with the saturation on, just below and above the       *)
(* thresholds, and one long belt list that overfills both reported lists.  *)
(***************************************************************************)
MaxBelts == 2
BeltBankSize == 36

\* Saturation percentages around the thresholds 95 and 90 and the limits
\* ten points below them.
Saturations ==
    {FracInt(100), FracInt(95), Frac(949, 10), FracInt(90), Frac(899, 10),
     FracInt(85), Frac(849, 10), FracInt(80), FracInt(50)}

\* The belts of a list, numbered by position.
Numbered(kinds) ==
    [k \in 1..Len(kinds) |->
        Belt(k, kinds[k].item_type, FracInt(1), 6, kinds[k].saturation_percent)]

BeltKinds ==
    {[item_type |-> t, saturation_percent |-> s] : t \in {"item_3", "Motor"}, s \in Saturations}

ShortBeltSnapshots ==
    {Snapshot(<<Planet(1, <<>>, Numbered(b), NoPower),
                Planet(2, <<>>, <<Belt(1, "Gear", FracInt(5), 6, FracInt(90))>>, NoPower)>>) :
        b \in SeqsUpTo(BeltKinds, MaxBelts)}

\* BeltBankSize belts on one planet: two of three at 95..100 percent, every
\* third at 85..94 percent, in no order.
BeltBank ==
    [k \in 1..BeltBankSize |->
        Belt(k, "Gear", FracInt(1), 12,
             IF k % 3 = 0 THEN FracInt(85 + (k % 10)) ELSE FracInt(95 + (k % 6)))]

BeltCalls ==
    {LogisticsCall(pid, f, FracInt(t), FALSE) :
        pid \in {None, 2}, f \in {{}, {"Gear"}}, t \in {95, 90}}

InitBelts ==
    /\ graph = Catalog
    /\ trace = TraceIdle
    /\ database = NoDatabase
    /\ analyzers = NoAnalyzers
    /\ access = NoAccess
    /\ \/ /\ snapshot \in ShortBeltSnapshots
          /\ \E p \in BeltCalls : params = [NoCalls EXCEPT ![1] = p]
       \/ /\ snapshot = Snapshot(<<Planet(1, <<>>, BeltBank, NoPower)>>)
          /\ \E t \in {95, 90} :
                params = [NoCalls EXCEPT ![1] = LogisticsCall(None, {}, FracInt(t), FALSE)]
    /\ locals = [NoLocals EXCEPT ![1] = Started]

NextBelts ==
    \/ LogisticsEnter(1)
    \/ LogisticsPlanet(1)
    \/ LogisticsReturn(1)

SpecBelts == InitBelts /\ [][NextBelts]_vars

(***************************************************************************)
(* Properties of the bottleneck call.                                      *)
(***************************************************************************)
BottleneckDone == params[1].engine = "bottleneck" /\ locals[1].pc = "done"

StarvedCount(g) == Cardinality({k \in 1..Len(g) : g[k].input_starved})
BlockedCount(g) == Cardinality({k \in 1..Len(g) : g[k].output_blocked})

\* The planets the call's planet_id selects.
SelectedPlanets ==
    {snapshot.planets[k] : k \in {j \in 1..Len(snapshot.planets) :
        params[1].planet_id = None \/ snapshot.planets[j].pid = params[1].planet_id}}

\* The recipe groups of known recipes on the selected planets, as
\* <<planet, recipe id>>.
GroupsOfKnownRecipes ==
    {pr \in UNION {{<<p, p.assemblers[k].recipe_id>> : k \in 1..Len(p.assemblers)} :
                        p \in SelectedPlanets} :
        pr[2] \in DOMAIN graph.recipes}

GroupOf(pr) == SelectSeq(pr[1].assemblers, LAMBDA a : a.recipe_id = pr[2])

\* The bottlenecks recorded for one group.
RecordedFor(pr) ==
    SelectSeq(locals[1].acc.bottlenecks, LAMBDA b : b.planet_id = pr[1].pid /\ b.recipe_id = pr[2])

RecordedAs(pr, type) == SelectSeq(RecordedFor(pr), LAMBDA b : b.bottleneck_type = type)

\* C1: a group of a known recipe with more than 30% of its buildings
\* input_starved and more than 30% output_blocked is recorded as
\* input_starvation, never as output_blocked or low_efficiency, whatever its
\* efficiency.  (Stated for calls without target_item, which analyse every
\* group of a known recipe.)
StarvedTakesPrecedence ==
    (BottleneckDone /\ params[1].target_item = "") =>
        \A pr \in GroupsOfKnownRecipes :
            (/\ 10 * StarvedCount(GroupOf(pr)) > 3 * Len(GroupOf(pr))
             /\ 10 * BlockedCount(GroupOf(pr)) > 3 * Len(GroupOf(pr)))
            => /\ Len(RecordedFor(pr)) = 1
               /\ RecordedFor(pr)[1].bottleneck_type = "input_starvation"

\* A group that is starved and blocked alike and runs below 80% efficiency,
\* so that all three rules match, was analysed.
StarvedAndBlockedWitness ==
    /\ BottleneckDone
    /\ params[1].target_item = ""
    /\ \E pr \in GroupsOfKnownRecipes :
          /\ 10 * StarvedCount(GroupOf(pr)) > 3 * Len(GroupOf(pr))
          /\ 10 * BlockedCount(GroupOf(pr)) > 3 * Len(GroupOf(pr))
          /\ BlockedCount(GroupOf(pr)) < Len(GroupOf(pr))
          /\ RecordedFor(pr) # <<>>
          /\ FracLt(RecordedFor(pr)[1].efficiency, FracInt(80))

(***************************************************************************)
(* Properties of the traversals.                                           *)
(***************************************************************************)
TraceResultIds == [i \in 1..Len(trace.result) |-> trace.result[i].item_id]

\* C2: every traversal terminates and its result holds each item id at most
\* once, on cyclic and diamond-shaped recipe graphs alike.
TraceTerminatesOnce ==
    /\ [](NoDuplicates(TraceResultIds))
    /\ (trace.pc = "run") ~> (trace.pc = "done")

\* A finished traversal of a graph in which the start item lies on a cycle
\* (an entered item leads back to it) and some item is reachable two ways.
TraceCycleWitness ==
    /\ trace.pc = "done"
    /\ trace.max_depth = ChainDepth
    /\ Len(trace.result) = 3
    /\ \E i \in 1..Len(trace.result) :
          \E j \in 1..Len(Neighbours(trace.dir, trace.result[i].item_id)) :
             Neighbours(trace.dir, trace.result[i].item_id)[j].item_id = trace.start
    /\ \E i, j \in 1..Len(trace.result) :
          /\ i # j
          /\ \E k \in 1..Len(Neighbours(trace.dir, trace.result[i].item_id)) :
                \E l \in 1..Len(Neighbours(trace.dir, trace.result[j].item_id)) :
                   Neighbours(trace.dir, trace.result[i].item_id)[k].item_id
                     = Neighbours(trace.dir, trace.result[j].item_id)[l].item_id

\* C3: a group of n buildings of a known recipe, s of them input_starved, is
\* recorded as input_starvation exactly when s / n > 0.3, with severity
\* 100 * s / n: 2 starved of 4 give 50.0, and of two such groups the one
\* with the larger starved fraction has the strictly larger severity.
StarvationThresholdAndSeverity ==
    (BottleneckDone /\ params[1].target_item = "") =>
        /\ \A pr \in GroupsOfKnownRecipes :
              LET n == Len(GroupOf(pr))
                  s == StarvedCount(GroupOf(pr))
                  starved == RecordedAs(pr, "input_starvation")
              IN /\ (starved # <<>>) <=> (10 * s > 3 * n)
                 /\ Len(starved) <= 1
                 /\ \A i \in 1..Len(starved) :
                        FracEq(starved[i].severity, Frac(100 * s, n))
                 /\ (n = 4 /\ s = 2) =>
                        /\ starved # <<>>
                        /\ starved[1].severity.num = 50 * starved[1].severity.den
        /\ \A pr, qr \in GroupsOfKnownRecipes :
             (/\ RecordedAs(pr, "input_starvation") # <<>>
              /\ RecordedAs(qr, "input_starvation") # <<>>
              /\ StarvedCount(GroupOf(pr)) * Len(GroupOf(qr))
                   < StarvedCount(GroupOf(qr)) * Len(GroupOf(pr)))
             => FracLt(RecordedAs(pr, "input_starvation")[1].severity,
                       RecordedAs(qr, "input_starvation")[1].severity)

\* A group of 10 buildings with exactly 3 starved was analysed and is not
\* recorded as input_starvation.
ExactlyThirtyPercentWitness ==
    /\ BottleneckDone
    /\ \E pr \in GroupsOfKnownRecipes :
          /\ Len(GroupOf(pr)) = 10
          /\ StarvedCount(GroupOf(pr)) = 3
          /\ RecordedAs(pr, "input_starvation") = <<>>

(***************************************************************************)
(* Properties of the logistics call.                                       *)
(***************************************************************************)
LogisticsDone == params[1].engine = "logistics" /\ locals[1].pc = "done"

\* The items / min a requirement was sized for.
MaxFlow(r) == Max(r.production_rate, r.consumption_rate)

\* The tier's capacity is at least the flow: flow / 60 <= capacity.
TierCovers(tier, r) == MaxFlow(r) <= 60 * BELT_TIERS[tier]

TierRank(tier) == CHOOSE k \in 1..Len(TierOrder) : TierOrder[k] = tier

\* C4: every requirement names the smallest of mk1, mk2, mk3 whose capacity
\* is at least flow_per_sec = max(production, consumption) / 60, and mk3
\* when none is: exactly 6 items / sec give mk1, a flow above 6 and up to 12
\* gives mk2, and of two requirements the one with the larger flow never
\* has the smaller tier.
TierIsSmallestCovering ==
    LogisticsDone =>
        /\ \A i \in 1..Len(locals[1].requirements) :
              LET r == locals[1].requirements[i]
              IN /\ r.required_belt_tier \in Range(TierOrder)
                 /\ (\E t \in Range(TierOrder) : TierCovers(t, r))
                       => /\ TierCovers(r.required_belt_tier, r)
                          /\ \A t \in Range(TierOrder) :
                                TierCovers(t, r) => TierRank(r.required_belt_tier) <= TierRank(t)
                 /\ (\A t \in Range(TierOrder) : ~TierCovers(t, r))
                       => r.required_belt_tier = "mk3"
                 /\ MaxFlow(r) = 360 => r.required_belt_tier = "mk1"
                 /\ (MaxFlow(r) > 360 /\ MaxFlow(r) <= 720) => r.required_belt_tier = "mk2"
        /\ \A i, j \in 1..Len(locals[1].requirements) :
              MaxFlow(locals[1].requirements[i]) <= MaxFlow(locals[1].requirements[j])
                 => TierRank(locals[1].requirements[i].required_belt_tier)
                      <= TierRank(locals[1].requirements[j].required_belt_tier)

\* One requirement was sized for exactly 6 items / sec, by consumption, and
\* another for exactly 12.
TierLimitWitness ==
    /\ LogisticsDone
    /\ \E i, j \in 1..Len(locals[1].requirements) :
          /\ MaxFlow(locals[1].requirements[i]) = 360
          /\ locals[1].requirements[i].consumption_rate
                > locals[1].requirements[i].production_rate
          /\ locals[1].requirements[i].required_belt_tier = "mk1"
          /\ MaxFlow(locals[1].requirements[j]) = 720
          /\ locals[1].requirements[j].required_belt_tier = "mk2"

\* The ceiling of flow_per_sec / capacity for a flow of m items / min.
CeilingOfFlow(m, capacity) == (m + 60 * capacity - 1) \div (60 * capacity)

\* C5: belt_count_needed is the ceiling of flow_per_sec divided by the
\* capacity of the chosen tier when the flow is positive, never less than
\* 1, and 0 when the flow is 0; exactly 6, 12 and 30 items / sec need one
\* mk1, one mk2 and one mk3 belt.
BeltCountIsCeiling ==
    LogisticsDone =>
        \A i \in 1..Len(locals[1].requirements) :
            LET r == locals[1].requirements[i]
            IN /\ MaxFlow(r) > 0 =>
                    /\ r.belt_count_needed
                         = CeilingOfFlow(MaxFlow(r), BELT_TIERS[r.required_belt_tier])
                    /\ r.belt_count_needed >= 1
               /\ MaxFlow(r) = 0 => r.belt_count_needed = 0
               /\ MaxFlow(r) \in {360, 720, 1800} => r.belt_count_needed = 1

(***************************************************************************)
(* Properties of the bottleneck call, continued.                           *)
(***************************************************************************)
\* The recipes with a building on a selected planet.
PresentRecipes == {pr[2] : pr \in GroupsOfKnownRecipes}

\* The recipe makes the named item, or the depth-5 downstream trace of its
\* primary output holds it.
ProducesOrReaches(recipe_id, item_name) ==
    LET recipe == graph.recipes[recipe_id]
        downstream == trace_bottleneck_downstream(recipe.primary_output_id, ChainDepth)
    IN \/ get_item_name(recipe.primary_output_id) = item_name
       \/ \E k \in 1..Len(downstream) : downstream[k].item_name = item_name

\* C6: with a non-empty target_item, a bottleneck is recorded
\* only for a recipe whose primary output is the target or whose depth-5
\* downstream trace reaches it, and a target no present recipe produces or
\* reaches gives bottlenecks_found = 0 and an empty bottlenecks list.
TargetRestrictsBottlenecks ==
    (BottleneckDone /\ params[1].target_item # "") =>
        /\ \A i \in 1..Len(locals[1].acc.bottlenecks) :
              ProducesOrReaches(locals[1].acc.bottlenecks[i].recipe_id, params[1].target_item)
        /\ (\A r \in PresentRecipes : ~ProducesOrReaches(r, params[1].target_item))
              => /\ locals[1].report.bottlenecks_found = 0
                 /\ locals[1].report.bottlenecks = <<>>

\* No selected planet holds a building.
NoBuildings == \A p \in SelectedPlanets : p.assemblers = <<>>

\* C7: when no analysed planet holds a building (no planets, no planet with
\* the given planet_id, or only empty building lists) the report is healthy
\* with efficiency 100.0, no bottlenecks and an empty critical path.
EmptyInputIsHealthy ==
    (BottleneckDone /\ NoBuildings) =>
        /\ locals[1].report.summary.status = "healthy"
        /\ locals[1].report.summary.efficiency = 1000
        /\ locals[1].report.bottlenecks = <<>>
        /\ locals[1].report.bottlenecks_found = 0
        /\ locals[1].report.critical_path = <<>>

\* The call named a planet the snapshot does not hold, while another planet
\* holds starved buildings.
NoMatchingPlanetWitness ==
    /\ BottleneckDone
    /\ NoBuildings
    /\ params[1].planet_id # None
    /\ params[1].include_downstream
    /\ \A k \in 1..Len(snapshot.planets) : snapshot.planets[k].pid # params[1].planet_id
    /\ \E k \in 1..Len(snapshot.planets) :
          \E j \in 1..Len(snapshot.planets[k].assemblers) :
             /\ snapshot.planets[k].assemblers[j].input_starved
             /\ snapshot.planets[k].assemblers[j].recipe_id \in DOMAIN graph.recipes

(***************************************************************************)
(* Properties of the db property.                                          *)
(***************************************************************************)
\* C8: however the first accesses to the recipe graph interleave, on one
\* analyzer or on several, the graph is built once, and every caller that
\* returned and every analyzer that cached hold that one instance.
GraphBuiltOnce ==
    /\ database.builds <= 1
    /\ \A k \in Callers :
          access[k].pc = "done" =>
              /\ database.builds = 1
              /\ access[k].value # None
              /\ access[k].value = database.instance
    /\ \A e \in Engines :
          analyzers[e]._db # None => analyzers[e]._db = database.instance
    /\ \A j, k \in Callers :
          (access[j].pc = "done" /\ access[k].pc = "done")
              => access[j].value = access[k].value

\* Every caller returned; two of them found the _db of the same analyzer
\* empty and both loaded, a third went through another analyzer.
ConcurrentFirstAccessWitness ==
    /\ \A k \in Callers : access[k].pc = "done"
    /\ \E j, k, m \in Callers :
          /\ j # k
          /\ access[j].analyzer = access[k].analyzer
          /\ access[j].got # None
          /\ access[k].got # None
          /\ access[m].analyzer # access[j].analyzer
          /\ access[m].got # None

(***************************************************************************)
(* Properties of interleaved calls.                                        *)
(***************************************************************************)
\* One statement of a call that runs on its own.
StepAlone(p, l, factory_state) ==
    CASE p.engine = "bottleneck" ->
            (CASE l.pc = "call" -> bottleneck_enter(p)
               [] l.pc = "groups" -> bottleneck_group(p, l, factory_state).locals
               [] l.pc = "planets" /\ l.index <= Len(factory_state.planets) ->
                     bottleneck_planet(p, l, factory_state)
               [] OTHER -> bottleneck_return(p, l, factory_state))
      [] p.engine = "logistics" ->
            (CASE l.pc = "call" -> logistics_enter(p)
               [] l.pc = "planets" /\ l.index <= Len(factory_state.planets) ->
                     logistics_planet(p, l, factory_state).locals
               [] OTHER -> logistics_return(p, l, factory_state))
      [] OTHER ->
            (CASE l.pc = "call" -> power_enter(p)
               [] l.pc = "planets" /\ l.index <= Len(factory_state.planets) ->
                     power_planet(p, l, factory_state).locals
               [] OTHER -> power_return(p, l, factory_state))

RECURSIVE ReachedAlone(_, _, _, _)
\* The call run on its own from l passes through the frame target.
ReachedAlone(p, l, factory_state, target) ==
    IF l = target THEN TRUE
    ELSE IF l.pc = "done" THEN FALSE
    ELSE ReachedAlone(p, StepAlone(p, l, factory_state), factory_state, target)

RECURSIVE analyze(_, _, _)
\* The report of the call run on its own from l.
analyze(p, l, factory_state) ==
    IF l.pc = "done" THEN l.report
    ELSE analyze(p, StepAlone(p, l, factory_state), factory_state)

\* C9: whatever the interleaving, each call holds at every point the locals
\* it would hold at that point when run alone on the snapshot, and returns
\* the report it would return alone; the analyzers hold nothing but the
\* cached graph reference.
CallsArePure ==
    /\ \A c \in CallIds :
          /\ ReachedAlone(params[c], Started, snapshot, locals[c])
          /\ locals[c].pc = "done" => locals[c].report = analyze(params[c], Started, snapshot)
    /\ \A e \in Engines :
          /\ DOMAIN analyzers[e] = {"_db"}
          /\ analyzers[e]._db \in {None, database.instance}

\* Call 1 returned a report with a bottleneck while call 2, on the same
\* analyzer with other arguments, was inside its loop holding a bottleneck
\* of its own.
InterleavedCallsWitness ==
    /\ params[1].engine = "bottleneck"
    /\ params[2].engine = "bottleneck"
    /\ params[1] # params[2]
    /\ locals[1].pc = "done"
    /\ locals[1].report.bottlenecks_found >= 1
    /\ locals[2].pc = "groups"
    /\ locals[2].acc.bottlenecks # <<>>
    /\ analyzers["bottleneck"]._db # None

\* C10: no statement of a bottleneck, logistics or power call changes the
\* snapshot: timestamp, planets, building lists, belt lists, power states
\* and every field of their records stay as they were.
SnapshotUnchanged == [][snapshot' = snapshot]_vars

\* Both calls returned; a power call accumulated two buildings with output
\* into one PowerConsumer and a bottleneck call stamped a planet id on a
\* Bottleneck it recorded.
CallWritesWitness ==
    /\ params[1].engine = "power"
    /\ params[2].engine = "bottleneck"
    /\ locals[1].pc = "done"
    /\ locals[2].pc = "done"
    /\ \E k \in 1..Len(locals[1].acc.all_consumers) :
          /\ locals[1].acc.all_consumers[k].building_count = 2
          /\ locals[1].acc.all_consumers[k].production_rate = 60
    /\ \E k \in 1..Len(locals[2].acc.bottlenecks) :
          locals[2].acc.bottlenecks[k].planet_id = 2

(***************************************************************************)
(* Properties of the bottleneck report.                                    *)
(***************************************************************************)
Report == locals[1].report

Recorded == locals[1].acc.bottlenecks

Min(a, b) == IF a <= b THEN a ELSE b

\* C11: the bottlenecks list has min(bottlenecks_found, 10) entries, every
\* entry is a recorded bottleneck, the list is in non-increasing order of
\* severity, and no recorded bottleneck left out of it has a severity
\* strictly greater than one in it (as many recorded bottlenecks as listed
\* ones lie strictly above each listed severity).
TopTenBySeverity ==
    BottleneckDone =>
        /\ Report.bottlenecks_found = Len(Recorded)
        /\ Len(Report.bottlenecks) = Min(Report.bottlenecks_found, 10)
        /\ \A k \in 1..Len(Report.bottlenecks) :
              \E j \in 1..Len(Recorded) : Report.bottlenecks[k] = ReportEntry(Recorded[j])
        /\ \A i, j \in 1..Len(Report.bottlenecks) :
              i < j => Report.bottlenecks[i].severity >= Report.bottlenecks[j].severity
        /\ \A k \in 1..Len(Report.bottlenecks) :
              Cardinality({j \in 1..Len(Recorded) :
                              RoundTenths(Recorded[j].severity)
                                > Report.bottlenecks[k].severity})
                = Cardinality({i \in 1..Len(Report.bottlenecks) :
                                  Report.bottlenecks[i].severity
                                    > Report.bottlenecks[k].severity})

\* Twelve bottlenecks on four planets were recorded, the first of them
\* the least severe, and ten are listed, the last of severity 25.
MoreThanTenWitness ==
    /\ BottleneckDone
    /\ Report.bottlenecks_found = 12
    /\ Len(Report.bottlenecks) = 10
    /\ Report.bottlenecks[1].severity = 1000
    /\ Report.bottlenecks[10].severity = 250
    /\ snapshot.planets[1].assemblers[1].efficiency = 75

(***************************************************************************)
(* Properties of buildings of recipes the catalog does not hold.           *)
(***************************************************************************)
KnownRecipe(a) == a.recipe_id \in DOMAIN graph.recipes

\* The snapshot without the buildings of unknown recipes.
WithoutUnknown ==
    [snapshot EXCEPT !.planets =
        [k \in 1..Len(snapshot.planets) |->
            [snapshot.planets[k] EXCEPT !.assemblers = SelectSeq(@, KnownRecipe)]]]

HoldsUnknown == WithoutUnknown # snapshot

\* C12: a building of a recipe the catalog does not hold is skipped by the
\* three engines.  The bottleneck report has no bottleneck of such a recipe
\* and the same bottlenecks, critical path and count of inefficient
\* buildings as the call on the snapshot without those buildings; the
\* logistics report (throughput requirements included) and the power report
\* (consumers and breakdown included) are the reports of the call on the
\* snapshot without them.
UnknownRecipesSkipped ==
    \A c \in CallIds :
        locals[c].pc = "done" =>
            LET alone == analyze(params[c], Started, WithoutUnknown)
                report == locals[c].report
            IN IF params[c].engine = "bottleneck"
               THEN /\ \A k \in 1..Len(locals[c].acc.bottlenecks) :
                          locals[c].acc.bottlenecks[k].recipe_id \in DOMAIN graph.recipes
                    /\ report.bottlenecks = alone.bottlenecks
                    /\ report.bottlenecks_found = alone.bottlenecks_found
                    /\ report.critical_path = alone.critical_path
                    /\ report.inefficient_assemblers = alone.inefficient_assemblers
               ELSE report = alone

\* A snapshot with a building of an unknown recipe next to one of a known
\* recipe was analysed by the bottleneck engine, which recorded a bottleneck
\* for the known one, and by the logistics engine, which computed
\* throughput requirements.
UnknownBesideKnownWitness ==
    /\ HoldsUnknown
    /\ params[1].engine = "bottleneck"
    /\ params[2].engine = "logistics"
    /\ locals[1].pc = "done"
    /\ locals[2].pc = "done"
    /\ Len(snapshot.planets[1].assemblers) = 2
    /\ ~KnownRecipe(snapshot.planets[1].assemblers[1])
    /\ params[1].planet_id = None
    /\ params[1].target_item = ""
    /\ locals[1].report.bottlenecks_found = 2
    /\ "throughput_requirements" \in DOMAIN locals[2].report

(***************************************************************************)
(* Properties of the power report.                                         *)
(***************************************************************************)
PowerDone == params[1].engine = "power" /\ locals[1].pc = "done"

\* The power state of the planet a planet_data dictionary reports.
PowerOf(d) ==
    snapshot.planets[CHOOSE k \in 1..Len(snapshot.planets) :
                        snapshot.planets[k].pid = d.planet_id].power

Deficits(planets) == {k \in 1..Len(planets) : planets[k].status = "deficit"}

\* C13: a reported planet has status deficit exactly when its surplus_mw is
\* negative (0 is surplus); planets_with_deficit counts the planets reported
\* with status deficit; exactly those carry a recommendation, chosen by
\* d = |surplus_mw|: one thermal plant for d < 10, int(d/15)+1 fusion plants
\* for 10 <= d < 50 (2 for generation 80, consumption 100), the major
\* deficit text for d >= 50.
DeficitStatusAndAdvice ==
    PowerDone =>
        /\ Report.summary.planets_with_deficit = Cardinality(Deficits(Report.planets))
        /\ \A k \in 1..Len(Report.planets) :
              LET d == Report.planets[k]
                  surplus == PowerOf(d).surplus_mw
                  deficit == 0 - surplus
              IN /\ d.status \in {"surplus", "deficit"}
                 /\ d.status = "deficit" <=> surplus < 0
                 /\ "recommendation" \in DOMAIN d <=> d.status = "deficit"
                 /\ surplus < 0 =>
                       /\ deficit < 10 =>
                             d.recommendation[1] = "Minor deficit - add 1 thermal plant"
                       /\ (10 <= deficit /\ deficit < 50) =>
                             /\ d.recommendation[1] = "Deficit - add fusion plants"
                             /\ d.recommendation[3] = (deficit \div 15) + 1
                       /\ deficit >= 50 =>
                             d.recommendation[1]
                               = "Major deficit - consider artificial sun or ray receivers"
                       /\ (PowerOf(d).generation_mw = 80 /\ PowerOf(d).consumption_mw = 100)
                             => d.recommendation[3] = 2

\* A planet with surplus exactly 0 is reported as surplus next to a planet
\* with generation 70 and consumption 100, which is advised 3 fusion
\* plants.
ZeroSurplusBesideDeficitWitness ==
    /\ PowerDone
    /\ Len(Report.planets) = 2
    /\ PowerOf(Report.planets[1]).surplus_mw = 0
    /\ Report.planets[1].status = "surplus"
    /\ PowerOf(Report.planets[2]).surplus_mw = 0 - 30
    /\ Report.planets[2].status = "deficit"
    /\ Report.planets[2].recommendation[3] = 3
    /\ Report.summary.planets_with_deficit = 1

(***************************************************************************)
(* Properties of the group statistics.                                     *)
(***************************************************************************)
TheoreticalSum(g) == SumSeq([k \in 1..Len(g) |-> g[k].theoretical_max])

ProductionSum(g) == SumSeq([k \in 1..Len(g) |-> g[k].production_rate])

\* The total theoretical rate stated for a group of recipe recipe_id.
TheoreticalRateOf(g, recipe_id) ==
    IF TheoreticalSum(g) # 0 THEN TheoreticalSum(g)
    ELSE calculate_theoretical_rate(recipe_id, Len(g))

\* C14: the total theoretical rate behind a recorded bottleneck's
\* efficiency and throughput loss is the sum of the group's theoretical_max
\* when that sum is nonzero and calculate_theoretical_rate(recipe_id, n)
\* only when it is zero, whatever the order of the buildings; a rate of 0
\* gives an efficiency of 100.
TheoreticalRateIsNonzeroSum ==
    (BottleneckDone /\ params[1].target_item = "") =>
        \A pr \in GroupsOfKnownRecipes :
            \A k \in 1..Len(RecordedFor(pr)) :
                LET b == RecordedFor(pr)[k]
                    rate == TheoreticalRateOf(GroupOf(pr), pr[2])
                IN /\ b.affected_throughput = rate - ProductionSum(GroupOf(pr))
                   /\ FracEq(b.efficiency,
                             IF rate > 0 THEN Frac(ProductionSum(GroupOf(pr)) * 100, rate)
                             ELSE FracInt(100))

\* C15: every recorded bottleneck has a severity within [0, 100]; a
\* low_efficiency bottleneck has severity 100 - avg_efficiency, strictly
\* greater than 20.
SeverityWithinRange ==
    BottleneckDone =>
        \A k \in 1..Len(Recorded) :
            LET b == Recorded[k]
            IN /\ FracLe(FracInt(0), b.severity)
               /\ FracLe(b.severity, FracInt(100))
               /\ b.bottleneck_type \in Range(BottleneckTypes)
               /\ b.bottleneck_type = "low_efficiency" =>
                     /\ FracEq(b.severity,
                               Frac(100 * b.efficiency.den - b.efficiency.num, b.efficiency.den))
                     /\ FracLt(FracInt(20), b.severity)

\* A report with a low_efficiency bottleneck of severity 25 (45 of 60 items
\* a minute) and an input_starvation bottleneck of severity 100.
LowAndFullSeverityWitness ==
    /\ BottleneckDone
    /\ Len(Recorded) = 2
    /\ Recorded[1].bottleneck_type = "input_starvation"
    /\ FracEq(Recorded[1].severity, FracInt(100))
    /\ Recorded[2].bottleneck_type = "low_efficiency"
    /\ FracEq(Recorded[2].severity, FracInt(25))
    /\ FracEq(Recorded[2].efficiency, FracInt(75))

(***************************************************************************)
(* Properties of the critical path.                                        *)
(***************************************************************************)
\* C16: with include_downstream and at least one bottleneck recorded, the
\* critical path has one step per entry of the depth-5 upstream trace of
\* the highest-severity bottleneck's item, in trace order; a step has
\* has_bottleneck exactly when some recorded bottleneck, listed or not, has
\* its item id, and carries bottleneck_type and severity only then.
CriticalPathFollowsTrace ==
    (BottleneckDone /\ params[1].include_downstream /\ Recorded # <<>>) =>
        LET root == Recorded[1]
            upstream == trace_bottleneck_upstream(root.item_id, 5)
            path == Report.critical_path
        IN /\ \A k \in 1..Len(Recorded) : FracLe(Recorded[k].severity, root.severity)
           /\ Len(path) = Len(upstream)
           /\ \A k \in 1..Len(path) :
                 /\ path[k].item_id = upstream[k].item_id
                 /\ path[k].item = upstream[k].item_name
                 /\ path[k].recipe_id = upstream[k].recipe_id
                 /\ path[k].has_bottleneck
                       <=> \E j \in 1..Len(Recorded) : Recorded[j].item_id = path[k].item_id
                 /\ "bottleneck_type" \in DOMAIN path[k] <=> path[k].has_bottleneck
                 /\ "severity" \in DOMAIN path[k] <=> path[k].has_bottleneck

\* The most severe bottleneck is on the motor; of the three items upstream
\* of it the ingot has a bottleneck of its own and the others have none.
PathWithAndWithoutBottleneckWitness ==
    /\ BottleneckDone
    /\ params[1].include_downstream
    /\ Len(Recorded) = 2
    /\ Recorded[1].item_name = "Motor"
    /\ Recorded[2].item_name = "Iron Ingot"
    /\ Len(Report.critical_path) = 3
    /\ \E k \in 1..3 : /\ Report.critical_path[k].has_bottleneck
                        /\ Report.critical_path[k].item = "Iron Ingot"
                        /\ Report.critical_path[k].bottleneck_type = "low_efficiency"
    /\ \E k \in 1..3 : ~Report.critical_path[k].has_bottleneck

(***************************************************************************)
(* Properties of the summary.                                              *)
(***************************************************************************)
\* The buildings on the planets the call's planet_id selects, as
\* <<planet id, position>>.
AnalysedBuildings ==
    UNION {{<<p.pid, k>> : k \in 1..Len(p.assemblers)} : p \in SelectedPlanets}

BuildingAt(pk) ==
    (CHOOSE p \in SelectedPlanets : p.pid = pk[1]).assemblers[pk[2]]

InefficientBuildings == {pk \in AnalysedBuildings : BuildingAt(pk).efficiency < 90}

\* C17: inefficient_assemblers counts the buildings on the analysed planets
\* with efficiency below 90; when no bottleneck is recorded and those
\* planets hold n >= 1 buildings, the healthy summary's efficiency is
\* (1 - k/n) x 100 (to one decimal) for the k of those n buildings below 90.
InefficientCountsEveryBuilding ==
    BottleneckDone =>
        LET n == Cardinality(AnalysedBuildings)
            k == Cardinality(InefficientBuildings)
        IN /\ Report.inefficient_assemblers = k
           /\ (Recorded = <<>> /\ n >= 1) =>
                 /\ Report.summary.status = "healthy"
                 /\ Report.summary.efficiency = RoundTenths(Frac((n - k) * 100, n))

(***************************************************************************)
(* Properties of the belt lists.                                           *)
(***************************************************************************)
\* The belts that pass the planet and item filters, as
\* <<planet id, belt id, saturation_percent>>.
PassingBelts ==
    UNION {{<<p.pid, p.belts[k].belt_id, p.belts[k].saturation_percent>> :
                k \in {j \in 1..Len(p.belts) :
                          PassesItemFilter(params[1].item_filter,
                                           ItemDisplay(p.belts[j].item_type),
                                           p.belts[j].item_type)}} :
           p \in SelectedPlanets}

NearLimit == Frac(params[1].saturation_threshold.num - 10 * params[1].saturation_threshold.den,
                  params[1].saturation_threshold.den)

SaturatedClass ==
    {b \in PassingBelts : FracLe(params[1].saturation_threshold, b[3])}

NearClass ==
    {b \in PassingBelts : /\ FracLe(NearLimit, b[3])
                          /\ FracLt(b[3], params[1].saturation_threshold)}

\* The belts a list of belt_data dictionaries names.
BeltsIn(list) == {<<list[k].planet_id, list[k].belt_id>> : k \in 1..Len(list)}

Ids(class) == {<<b[1], b[2]>> : b \in class}

NonIncreasing(list) ==
    \A i, j \in 1..Len(list) : i < j => list[i].saturation >= list[j].saturation

\* C18: every belt that passes the filters is saturated (saturation_percent
\* >= threshold), near saturation (threshold - 10 <= saturation_percent <
\* threshold) or unreported; no belt is in both lists; each list is in
\* non-increasing order of saturation; saturated_belts has at most 20 and
\* near_saturation at most 10 entries; the summary counts are the sizes of
\* the classes.
BeltsInOneClass ==
    LogisticsDone =>
        /\ BeltsIn(locals[1].acc.saturated_belts) = Ids(SaturatedClass)
        /\ BeltsIn(locals[1].acc.near_saturation) = Ids(NearClass)
        /\ Len(locals[1].acc.saturated_belts) = Cardinality(SaturatedClass)
        /\ Len(locals[1].acc.near_saturation) = Cardinality(NearClass)
        /\ Report.summary.saturated_count = Cardinality(SaturatedClass)
        /\ Report.summary.near_saturation_count = Cardinality(NearClass)
        /\ Len(Report.saturated_belts) = Min(Cardinality(SaturatedClass), 20)
        /\ Len(Report.near_saturation) = Min(Cardinality(NearClass), 10)
        /\ BeltsIn(Report.saturated_belts) \subseteq Ids(SaturatedClass)
        /\ BeltsIn(Report.near_saturation) \subseteq Ids(NearClass)
        /\ Cardinality(BeltsIn(Report.saturated_belts)) = Len(Report.saturated_belts)
        /\ Cardinality(BeltsIn(Report.near_saturation)) = Len(Report.near_saturation)
        /\ BeltsIn(Report.saturated_belts) \cap BeltsIn(Report.near_saturation) = {}
        /\ \A k \in 1..Len(Report.saturated_belts) :
              Report.saturated_belts[k].status = "saturated"
        /\ \A k \in 1..Len(Report.near_saturation) :
              Report.near_saturation[k].status = "near_saturation"
        /\ NonIncreasing(Report.saturated_belts)
        /\ NonIncreasing(Report.near_saturation)

\* Twenty-four saturated belts and twelve near saturation were classified:
\* twenty and ten are listed, the counts are uncapped.
OverfullListsWitness ==
    /\ LogisticsDone
    /\ Report.summary.saturated_count = 24
    /\ Report.summary.near_saturation_count = 12
    /\ Len(Report.saturated_belts) = 20
    /\ Len(Report.near_saturation) = 10
    /\ Report.saturated_belts[1].saturation = 1000
    /\ Report.saturated_belts[20].saturation < 1000

(***************************************************************************)
(* Properties of calls without downstream analysis.                        *)
(***************************************************************************)
\* The report of the same call on the same snapshot with include_downstream.
WithDownstream ==
    analyze([params[1] EXCEPT !.include_downstream = TRUE], Started, snapshot)

\* What the two reports must agree on for one bottleneck.
Identity(e) ==
    [item_id |-> e.item_id, recipe_id |-> e.recipe_id, planet_id |-> e.planet_id,
     type |-> e.type, severity |-> e.severity, upstream_items |-> e.upstream_items]

\* C19: without include_downstream the critical path is empty and every
\* reported bottleneck has an empty downstream_impact, while the bottlenecks
\* recorded, their types, severities and upstream_items are those of the
\* call with include_downstream on the same snapshot.
DownstreamOnlyAddsImpact ==
    (BottleneckDone /\ ~params[1].include_downstream) =>
        /\ Report.critical_path = <<>>
        /\ \A k \in 1..Len(Report.bottlenecks) : Report.bottlenecks[k].downstream_impact = <<>>
        /\ Report.bottlenecks_found = WithDownstream.bottlenecks_found
        /\ Len(Report.bottlenecks) = Len(WithDownstream.bottlenecks)
        /\ \A k \in 1..Len(Report.bottlenecks) :
              Identity(Report.bottlenecks[k]) = Identity(WithDownstream.bottlenecks[k])

\* A call without include_downstream reported a bottleneck on the ingot,
\* for which the call with include_downstream lists downstream items and a
\* critical path.
ImpactLeftOutWitness ==
    /\ BottleneckDone
    /\ ~params[1].include_downstream
    /\ Report.bottlenecks_found = 1
    /\ Report.bottlenecks[1].item = "Iron Ingot"
    /\ Report.bottlenecks[1].downstream_impact = <<>>
    /\ WithDownstream.bottlenecks[1].downstream_impact # <<>>
    /\ WithDownstream.critical_path # <<>>

====
